---- MODULE Spec2Model ----
(***************************************************************************)
(* Model of src/src/services/graph_service.rs (GraphService): the          *)
(* simulation-loop lifecycle (new / shutdown / loop guard), the graph      *)
(* builder (build_graph_from_metadata) and the node position cache         *)
(* (get_node_positions / clear_position_cache / update_node_positions).    *)
(***************************************************************************)
EXTENDS Integers, Sequences, FiniteSets, TLC

(***************************************************************************)
(* Bounds of the model.                                                    *)
(***************************************************************************)
\* number of GraphService instances ever constructed
MaxInstances == 2

\* number of concurrent callers of build_graph_from_metadata
MaxBuilders == 2

\* most entries in one metadata record's topic_counts
MaxTopics == 2

\* concurrent callers of get_node_positions
MaxReaders == 2

\* node positions range over 0..MaxPos
MaxPos == 1

\* most node updates in one update_node_positions call
MaxUpdates == 1

\* the clock stops at MaxTime ms
MaxTime == 50
MaxBatch == 2

\* the count of ticks started after a shutdown request stops here
MaxTicksAfterRequest == 2

\* the pages and page sizes requested go up to this
MaxPage == 3

Instances == 1..MaxInstances

Builders == 1..MaxBuilders

Readers == 1..MaxReaders

Positions == 0..MaxPos

\* the node data of the ticks and updates that change positions only
PlainDatas == [position : Positions, velocity : {0}, mass : {10}, flags : {1}]

\* node data that differ in every field of BinaryNodeData
SyncDatas ==
    PlainDatas \cup {[position |-> 0, velocity |-> 1, mass |-> 20, flags |-> 0]}

\* Strings are sequences of tokens; the suffix ".md" is one token.
FileNames == {<<"a", ".md">>, <<"a">>, <<"b", ".md">>}

\* co-occurrence counts a record may list
Counts == {2, 3}

\* the empty String held by SIMULATION_MUTEX before any instance exists
NoId == 0

(***************************************************************************)
(* Program constants.                                                      *)
(***************************************************************************)
SHUTDOWN_TIMEOUT_MS == 5000

NODE_POSITION_CACHE_TTL_MS == 50

UPDATE_RATE_LIMIT_MS == 16

SHUTDOWN_POLL_INTERVAL_MS == 50

MAX_GPU_CALCULATION_RETRIES == 3
GPU_RETRY_DELAY_MS == 500

\* let max_attempts = SHUTDOWN_TIMEOUT_MS / 50
max_attempts == SHUTDOWN_TIMEOUT_MS \div SHUTDOWN_POLL_INTERVAL_MS

VARIABLES
    SIMULATION_LOOP_RUNNING,  \* static AtomicBool
    SIMULATION_MUTEX,         \* static Mutex<String>: [value, holder]
    new_pc,                   \* position of GraphService::new of each instance
    loop_pc,                  \* position of the spawned simulation loop task
    shutdown_pc,              \* position of a shutdown() call on each instance
    attempt,                  \* shutdown(): the poll loop's counter
    shutdown_requested,       \* per instance Arc<AtomicBool>
    shutdown_complete,        \* per instance Arc<AtomicBool>
    shutdown_outcome,         \* what the last shutdown() call logged
    loop_was_running,         \* history: the loop was running when shutdown() compared ids
    GRAPH_REBUILD_IN_PROGRESS,\* static AtomicBool
    metadata,                 \* the MetadataStore handed to build_graph_from_metadata
    build_pc,                 \* position of each build_graph_from_metadata call
    build_result,             \* what each call returned: "ok" or the error
    built_graph,              \* the GraphData of the last Ok(graph)
    next_node_id,             \* the counter Node::new_with_id allocates fresh ids from
    now,                      \* the clock Instant::now() reads, in ms
    graph_data,               \* per instance Arc<RwLock<GraphData>>
    node_map,                 \* per instance Arc<RwLock<HashMap<u32, Node>>>
    node_positions_cache,     \* per instance Arc<RwLock<Option<(Vec<Node>, Instant)>>>
    last_update,              \* per instance Arc<RwLock<Instant>>
    read_pc,                  \* position of each get_node_positions call
    read_inst,                \* the instance the call is made on
    read_start,               \* get_node_positions: start_time
    read_nodes,               \* get_node_positions: nodes
    cache_stale,              \* history: a tick or clear came after the cached capture
    read_stale,               \* history: a tick or clear came after the call's capture
    read_sequential,          \* history: no other read has returned since the call began
    last_read,                \* history: what the latest get_node_positions returned
    update_call,              \* history: the latest update_node_positions call of a batch
    gpu_compute,              \* per instance Option<Arc<RwLock<GPUCompute>>>: is_some()
    physics_enabled,          \* per instance physics_settings.enabled, as captured by new()
    cpu_fault,                \* calculate_layout_cpu is made to return Err (fault injection)
    tick,                     \* per instance: the physics step of the loop's iteration
    diagnostics,              \* the latest get_simulation_diagnostics call
    lock_state,               \* the service's RwLocks and the tasks that use them
    settings,                 \* the live physics settings, and each instance's clone of them
    broadcast_loop,           \* per instance: the task spawned by start_broadcast_loop
    page_call                 \* the latest get_paginated_graph_data call

lifecycle_vars == <<SIMULATION_LOOP_RUNNING, SIMULATION_MUTEX, new_pc, loop_pc,
                    shutdown_pc, attempt, shutdown_requested, shutdown_complete,
                    shutdown_outcome, loop_was_running>>

build_vars == <<GRAPH_REBUILD_IN_PROGRESS, metadata, build_pc, build_result,
                built_graph, next_node_id>>

service_vars == <<graph_data, node_map, node_positions_cache, last_update>>

read_vars == <<read_pc, read_inst, read_start, read_nodes>>

history_vars == <<cache_stale, read_stale, read_sequential, last_read>>

graph_vars == <<now, service_vars, read_vars, history_vars>>

tick_vars == <<gpu_compute, physics_enabled, cpu_fault, tick>>

aux_vars == <<update_call, tick_vars, diagnostics, lock_state, broadcast_loop, page_call, settings>>

vars == <<lifecycle_vars, build_vars, graph_vars, aux_vars>>

Free == <<"free", NoId>>

\* start_broadcast_loop has not been called; of a started loop: where it is,
\* the snapshot it holds, and (history) what it has sent since
\* shutdown_requested was set
NoBroadcastLoop == [pc |-> "none", nodes |-> <<>>, sent_after_request |-> 0]

\* get_paginated_graph_data has not been called
NoPageCall == [pc |-> "none"]

\* what current_id holds when try_lock fails: "Unable to acquire mutex", which
\* is no instance's id
Unavailable == -1

\* the tasks that take the service's locks, and the locks
LockTasks == {"loop", "broadcast", "update", "reader", "clear", "gpu_test"}

Locks == {"graph_data", "node_map", "gpu_compute", "node_positions_cache", "last_update"}

\* every task is idle, every lock is free and nobody waits
NoLocks == [todo |-> [t \in LockTasks |-> <<>>],
            holders |-> [l \in Locks |-> {}],
            queue |-> [l \in Locks |-> <<>>]]

\* no get_simulation_diagnostics call has been made
NoDiagnostics == [pc |-> "none", inst |-> NoId, holder |-> Free, value |-> NoId,
                  current_id |-> NoId, is_active |-> FALSE,
                  is_running |-> FALSE, shutdown_requested |-> FALSE]

\* Option<(Vec<Node>, Instant)>
None == [some |-> FALSE, nodes |-> <<>>, timestamp |-> 0]

Some(nodes, timestamp) == [some |-> TRUE, nodes |-> nodes, timestamp |-> timestamp]

\* GraphData::default()
GraphDataDefault == [nodes |-> <<>>, edges |-> {}]

\* no update_node_positions call on a batch has been made; of a call made:
\* the instance, the batch, the index of the next update, the rate limiter's
\* answers so far, and the graph, node map and last_update it found
NoCall == [pc |-> "none", inst |-> NoId, updates |-> <<>>, accepted |-> <<>>,
           before |-> <<>>]

\* no physics step is under way; of a step: where it is, the index of the
\* GPU attempt, the calls of calculate_layout and of calculate_layout_cpu it
\* made, the delays it slept, last_error, what the computation returned and
\* whether the positions were broadcast
NoTick == [pc |-> "idle", attempt |-> 0, gpu_calls |-> 0, cpu_calls |-> 0,
           delays |-> <<>>, last_error |-> <<"None">>, result |-> <<"None">>,
           broadcast |-> FALSE, wrote |-> FALSE, written |-> <<>>, sent |-> <<>>,
           after_request |-> 0, fails |-> {}, ran |-> <<>>,
           attempt_result |-> <<"None">>, params |-> <<>>]

\* settings.visualisation.physics: enabled, and damping for the fields that
\* become simulation parameters
PhysicsSettings == [enabled : BOOLEAN, damping : {0, 1}]

\* the clone before it is taken
NotCaptured == [captured |-> FALSE]

\* every instance has cloned the same physics settings
CapturedSettings ==
    [live |-> [enabled |-> TRUE, damping |-> 0],
     physics_settings |-> [i \in Instances |-> [enabled |-> TRUE, damping |-> 0]]]

\* let params = SimulationParams { damping: physics_settings.damping, ..,
\* time_step: 0.016, .. }, with the time step in ms
SimulationParams(physics_settings) ==
    [damping |-> physics_settings.damping, time_step |-> 16]

\* instances are built without an accelerator and with physics enabled
InitTickIdle ==
    /\ gpu_compute = [i \in Instances |-> FALSE]
    /\ physics_enabled = [i \in Instances |-> TRUE]
    /\ cpu_fault = FALSE
    /\ tick = [i \in Instances |-> NoTick]

\* no get_node_positions call is in flight and none has returned
InitReaders ==
    /\ read_pc = [r \in Readers |-> "idle"]
    /\ read_inst = [r \in Readers |-> NoId]
    /\ read_start = [r \in Readers |-> 0]
    /\ read_nodes = [r \in Readers |-> <<>>]
    /\ cache_stale = [i \in Instances |-> FALSE]
    /\ read_stale = [r \in Readers |-> FALSE]
    /\ read_sequential = [r \in Readers |-> FALSE]
    /\ last_read = [inst |-> NoId, nodes |-> <<>>, start |-> 0,
                    quiet |-> FALSE, stale |-> FALSE]
    /\ update_call = NoCall
    /\ diagnostics = NoDiagnostics
    /\ lock_state = NoLocks
    /\ settings = CapturedSettings
    /\ broadcast_loop = [i \in Instances |-> NoBroadcastLoop]
    /\ page_call = NoPageCall

\* no instance has been constructed
InitNoService ==
    /\ now = 0
    /\ graph_data = [i \in Instances |-> GraphDataDefault]
    /\ node_map = [i \in Instances |-> <<>>]
    /\ node_positions_cache = [i \in Instances |-> None]
    /\ last_update = [i \in Instances |-> 0]

(***************************************************************************)
(* State before any GraphService exists: the statics as initialised.       *)
(***************************************************************************)
InitLifecycleVars ==
    /\ SIMULATION_LOOP_RUNNING = FALSE
    /\ SIMULATION_MUTEX = [value |-> NoId, holder |-> Free]
    /\ new_pc = [i \in Instances |-> "unborn"]
    /\ loop_pc = [i \in Instances |-> "none"]
    /\ shutdown_pc = [i \in Instances |-> "idle"]
    /\ attempt = [i \in Instances |-> 0]
    /\ shutdown_requested = [i \in Instances |-> FALSE]
    /\ shutdown_complete = [i \in Instances |-> FALSE]
    /\ shutdown_outcome = [i \in Instances |-> "none"]
    /\ loop_was_running = [i \in Instances |-> FALSE]

(***************************************************************************)
(* GraphService::new                                                       *)
(***************************************************************************)
\* let physics_settings = settings.read().await.visualisation.physics.clone();
NewCapture(i) ==
    /\ new_pc[i] = "unborn"
    /\ settings.physics_settings[i] = NotCaptured
    /\ settings' = [settings EXCEPT !.physics_settings[i] = settings.live]
    /\ physics_enabled' = [physics_enabled EXCEPT ![i] = settings.live.enabled]
    /\ UNCHANGED <<lifecycle_vars, build_vars, graph_vars, update_call, diagnostics,
                   lock_state, broadcast_loop, page_call, gpu_compute, cpu_fault, tick>>

\* the settings are changed by their owner
SettingsChange ==
    /\ \E changed \in PhysicsSettings \ {settings.live} :
          settings' = [settings EXCEPT !.live = changed]
    /\ UNCHANGED <<lifecycle_vars, build_vars, graph_vars, update_call, diagnostics,
                   lock_state, broadcast_loop, page_call, tick_vars>>

\* let mut guard = SIMULATION_MUTEX.lock().await;
NewLock(i) ==
    /\ new_pc[i] = "unborn"
    /\ settings.physics_settings[i] # NotCaptured
    /\ SIMULATION_MUTEX.holder = Free
    /\ SIMULATION_MUTEX' = [SIMULATION_MUTEX EXCEPT !.holder = <<"new", i>>]
    /\ new_pc' = [new_pc EXCEPT ![i] = "set_id"]
    /\ UNCHANGED <<SIMULATION_LOOP_RUNNING, loop_pc, shutdown_pc, attempt,
                   shutdown_requested, shutdown_complete, shutdown_outcome,
                   loop_was_running>>
    /\ UNCHANGED <<build_vars, graph_vars, aux_vars>>

\* the instance's fields are created (shutdown flags false, an empty
\* graph, node map and cache, last_update = Instant::now());
\* *guard = simulation_id.clone();
NewSetId(i) ==
    /\ new_pc[i] = "set_id"
    /\ SIMULATION_MUTEX' = [SIMULATION_MUTEX EXCEPT !.value = i]
    /\ new_pc' = [new_pc EXCEPT ![i] = "cas"]
    /\ shutdown_requested' = [shutdown_requested EXCEPT ![i] = FALSE]
    /\ shutdown_complete' = [shutdown_complete EXCEPT ![i] = FALSE]
    /\ graph_data' = [graph_data EXCEPT ![i] = GraphDataDefault]
    /\ node_map' = [node_map EXCEPT ![i] = <<>>]
    /\ node_positions_cache' = [node_positions_cache EXCEPT ![i] = None]
    /\ last_update' = [last_update EXCEPT ![i] = now]
    /\ UNCHANGED <<SIMULATION_LOOP_RUNNING, loop_pc, shutdown_pc, attempt,
                   shutdown_outcome, loop_was_running>>
    /\ UNCHANGED <<build_vars, aux_vars, now, read_vars, history_vars>>

\* SIMULATION_LOOP_RUNNING.compare_exchange(false, true).is_err()
NewCompareExchange(i) ==
    /\ new_pc[i] = "cas"
    /\ IF SIMULATION_LOOP_RUNNING = FALSE
         THEN /\ SIMULATION_LOOP_RUNNING' = TRUE
              /\ new_pc' = [new_pc EXCEPT ![i] = "release"]
         ELSE /\ SIMULATION_LOOP_RUNNING' = SIMULATION_LOOP_RUNNING
              /\ new_pc' = [new_pc EXCEPT ![i] = "store_false"]
    /\ UNCHANGED <<SIMULATION_MUTEX, loop_pc, shutdown_pc, attempt,
                   shutdown_requested, shutdown_complete, shutdown_outcome,
                   loop_was_running>>
    /\ UNCHANGED <<build_vars, graph_vars, aux_vars>>

\* SIMULATION_LOOP_RUNNING.store(false)
NewStoreFalse(i) ==
    /\ new_pc[i] = "store_false"
    /\ SIMULATION_LOOP_RUNNING' = FALSE
    /\ new_pc' = [new_pc EXCEPT ![i] = "store_true"]
    /\ UNCHANGED <<SIMULATION_MUTEX, loop_pc, shutdown_pc, attempt,
                   shutdown_requested, shutdown_complete, shutdown_outcome,
                   loop_was_running>>
    /\ UNCHANGED <<build_vars, graph_vars, aux_vars>>

\* SIMULATION_LOOP_RUNNING.store(true)
NewStoreTrue(i) ==
    /\ new_pc[i] = "store_true"
    /\ SIMULATION_LOOP_RUNNING' = TRUE
    /\ new_pc' = [new_pc EXCEPT ![i] = "release"]
    /\ UNCHANGED <<SIMULATION_MUTEX, loop_pc, shutdown_pc, attempt,
                   shutdown_requested, shutdown_complete, shutdown_outcome,
                   loop_was_running>>
    /\ UNCHANGED <<build_vars, graph_vars, aux_vars>>

\* drop(guard); tokio::spawn(loop); return_service
NewSpawn(i) ==
    /\ new_pc[i] = "release"
    /\ SIMULATION_MUTEX' = [SIMULATION_MUTEX EXCEPT !.holder = Free]
    /\ new_pc' = [new_pc EXCEPT ![i] = "returned"]
    /\ loop_pc' = [loop_pc EXCEPT ![i] = "check"]
    /\ UNCHANGED <<SIMULATION_LOOP_RUNNING, shutdown_pc, attempt,
                   shutdown_requested, shutdown_complete, shutdown_outcome,
                   loop_was_running>>
    /\ UNCHANGED <<build_vars, graph_vars, aux_vars>>

(***************************************************************************)
(* The spawned simulation loop.                                            *)
(***************************************************************************)
\* loop_guard's closure: compare_exchange(true, false), and on success
\* shutdown_complete.store(true)
LoopGuardRunning(running) == FALSE

LoopGuardComplete(i, running, complete) ==
    IF running THEN [complete EXCEPT ![i] = TRUE] ELSE complete

\* the loop never looking at the flag
ShutdownObservedNever(i) == FALSE

\* shutdown_requested.load(Ordering::SeqCst) at the top of the loop
ShutdownObserved(i) == shutdown_requested[i]

\* if shutdown_requested.load() { break; }  ... drop(loop_guard)
LoopCheck(i) ==
    /\ loop_pc[i] = "check"
    /\ IF ShutdownObserved(i)
         THEN /\ loop_pc' = [loop_pc EXCEPT ![i] = "exited"]
              /\ SIMULATION_LOOP_RUNNING' = LoopGuardRunning(SIMULATION_LOOP_RUNNING)
              /\ shutdown_complete' =
                    LoopGuardComplete(i, SIMULATION_LOOP_RUNNING, shutdown_complete)
         ELSE /\ loop_pc' = [loop_pc EXCEPT ![i] = "acquire"]
              /\ UNCHANGED <<SIMULATION_LOOP_RUNNING, shutdown_complete>>
    /\ UNCHANGED <<SIMULATION_MUTEX, new_pc, shutdown_pc, attempt,
                   shutdown_requested, shutdown_outcome, loop_was_running>>
    /\ UNCHANGED <<build_vars, graph_vars, aux_vars>>

\* graph_data.write().await; node_map.write().await
LoopAcquire(i) ==
    /\ loop_pc[i] = "acquire"
    /\ ~(update_call.pc = "running" /\ update_call.inst = i)
    /\ loop_pc' = [loop_pc EXCEPT ![i] = "tick"]
    /\ UNCHANGED <<SIMULATION_LOOP_RUNNING, SIMULATION_MUTEX, new_pc, shutdown_pc,
                   attempt, shutdown_requested, shutdown_complete, shutdown_outcome,
                   loop_was_running>>
    /\ UNCHANGED <<build_vars, graph_vars, aux_vars>>

\* calculate_layout_cpu's integration pass: every node gets a new velocity
\* and a new position (the float arithmetic is left open: the velocity and
\* position of any of the given data may result), id, mass and flags stay;
\* an empty graph returns early, unchanged
LayoutResults(nodes, datas) ==
    IF nodes = <<>>
      THEN {nodes}
      ELSE {[n \in DOMAIN nodes |->
                [nodes[n] EXCEPT !.data.velocity = computed[n].velocity,
                                 !.data.position = computed[n].position]] :
              computed \in [DOMAIN nodes -> datas]}

\* a tick that leaves the node map alone
MirrorNothing(map, nodes) == map

\* if let Some(map_node) = node_map.get_mut(&node.id) { map_node.data = node.data }
MirrorIntoMap(map, nodes) ==
    [id \in DOMAIN map |->
        IF \E n \in DOMAIN nodes : nodes[n].id = id
          THEN [map[id] EXCEPT !.data =
                   nodes[CHOOSE n \in DOMAIN nodes :
                           /\ nodes[n].id = id
                           /\ \A m \in DOMAIN nodes : nodes[m].id = id => m <= n].data]
          ELSE map[id]]

\* history: a tick that moved a node, or a clear, makes every snapshot
\* captured so far one captured before it
MarkStale(i, marked) ==
    /\ cache_stale' = [cache_stale EXCEPT ![i] = IF marked THEN TRUE ELSE @]
    /\ read_stale' = [r \in Readers |->
                        IF marked /\ read_inst[r] = i THEN TRUE ELSE read_stale[r]]

\* the physics step on the write-locked graph and node map, then
\* drop(graph); drop(node_map)
LoopTick(i) ==
    /\ loop_pc[i] = "tick"
    /\ \E result \in LayoutResults(graph_data[i].nodes, PlainDatas) :
          /\ graph_data' = [graph_data EXCEPT ![i].nodes = result]
          /\ node_map' = [node_map EXCEPT ![i] = MirrorIntoMap(@, result)]
          /\ MarkStale(i, result # graph_data[i].nodes)
    /\ last_read' = [last_read EXCEPT !.quiet = FALSE]
    /\ loop_pc' = [loop_pc EXCEPT ![i] = "sleep"]
    /\ UNCHANGED <<SIMULATION_LOOP_RUNNING, SIMULATION_MUTEX, new_pc, shutdown_pc,
                   attempt, shutdown_requested, shutdown_complete, shutdown_outcome,
                   loop_was_running>>
    /\ UNCHANGED <<build_vars, aux_vars, now, node_positions_cache, last_update, read_vars,
                   read_sequential>>

\* sleep(16ms) is over; *cache = None
LoopInvalidate(i) ==
    /\ loop_pc[i] = "sleep"
    /\ node_positions_cache' = [node_positions_cache EXCEPT ![i] = None]
    /\ cache_stale' = [cache_stale EXCEPT ![i] = FALSE]
    /\ last_read' = [last_read EXCEPT !.quiet = FALSE]
    /\ loop_pc' = [loop_pc EXCEPT ![i] = "check"]
    /\ UNCHANGED <<SIMULATION_LOOP_RUNNING, SIMULATION_MUTEX, new_pc, shutdown_pc,
                   attempt, shutdown_requested, shutdown_complete, shutdown_outcome,
                   loop_was_running>>
    /\ UNCHANGED <<build_vars, aux_vars, now, graph_data, node_map, last_update, read_vars,
                   read_stale, read_sequential>>

(***************************************************************************)
(* GraphService::shutdown                                                  *)
(***************************************************************************)
\* let guard = SIMULATION_MUTEX.lock().await;
ShutdownLock(i) ==
    /\ new_pc[i] = "returned"
    /\ shutdown_pc[i] = "idle"
    /\ SIMULATION_MUTEX.holder = Free
    /\ SIMULATION_MUTEX' = [SIMULATION_MUTEX EXCEPT !.holder = <<"shutdown", i>>]
    /\ shutdown_pc' = [shutdown_pc EXCEPT ![i] = "compare"]
    /\ shutdown_outcome' = [shutdown_outcome EXCEPT ![i] = "none"]
    /\ UNCHANGED <<SIMULATION_LOOP_RUNNING, new_pc, loop_pc, attempt,
                   shutdown_requested, shutdown_complete, loop_was_running>>
    /\ UNCHANGED <<build_vars, graph_vars, aux_vars>>

\* shutdown() without the comparison of ids: every call signals its loop
ShutdownCompareUnchecked(i) ==
    /\ shutdown_pc[i] = "compare"
    /\ shutdown_requested' = [shutdown_requested EXCEPT ![i] = TRUE]
    /\ shutdown_pc' = [shutdown_pc EXCEPT ![i] = "reset_complete"]
    /\ loop_was_running' =
          [loop_was_running EXCEPT ![i] = loop_pc[i] \notin {"none", "exited"}]
    /\ UNCHANGED <<SIMULATION_LOOP_RUNNING, SIMULATION_MUTEX, new_pc, loop_pc, attempt,
                   shutdown_complete, shutdown_outcome>>
    /\ UNCHANGED <<build_vars, graph_vars, aux_vars>>

\* if *guard != self.simulation_id { return; }
\* self.shutdown_requested.store(true)
ShutdownCompare(i) ==
    /\ shutdown_pc[i] = "compare"
    /\ IF SIMULATION_MUTEX.value # i
         THEN /\ SIMULATION_MUTEX' = [SIMULATION_MUTEX EXCEPT !.holder = Free]
              /\ shutdown_pc' = [shutdown_pc EXCEPT ![i] = "idle"]
              /\ shutdown_outcome' = [shutdown_outcome EXCEPT ![i] = "refused"]
              /\ UNCHANGED shutdown_requested
         ELSE /\ shutdown_requested' = [shutdown_requested EXCEPT ![i] = TRUE]
              /\ shutdown_pc' = [shutdown_pc EXCEPT ![i] = "reset_complete"]
              /\ UNCHANGED <<SIMULATION_MUTEX, shutdown_outcome>>
    /\ loop_was_running' =
          [loop_was_running EXCEPT ![i] = loop_pc[i] \notin {"none", "exited"}]
    /\ UNCHANGED <<SIMULATION_LOOP_RUNNING, new_pc, loop_pc, attempt,
                   shutdown_complete>>
    /\ UNCHANGED <<build_vars, graph_vars, aux_vars>>

\* self.shutdown_complete.store(false); for attempt in 0..max_attempts
ShutdownResetComplete(i) ==
    /\ shutdown_pc[i] = "reset_complete"
    /\ shutdown_complete' = [shutdown_complete EXCEPT ![i] = FALSE]
    /\ attempt' = [attempt EXCEPT ![i] = 0]
    /\ shutdown_pc' = [shutdown_pc EXCEPT ![i] = "poll"]
    /\ UNCHANGED <<SIMULATION_LOOP_RUNNING, SIMULATION_MUTEX, new_pc, loop_pc,
                   shutdown_requested, shutdown_outcome, loop_was_running>>
    /\ UNCHANGED <<build_vars, graph_vars, aux_vars>>

\* ShutdownPoll with `for attempt in 0..=max_attempts`
ShutdownPollOnceMore(i) ==
    /\ shutdown_pc[i] = "poll"
    /\ IF ~SIMULATION_LOOP_RUNNING /\ shutdown_complete[i]
         THEN /\ shutdown_outcome' = [shutdown_outcome EXCEPT ![i] = "stopped"]
              /\ shutdown_pc' = [shutdown_pc EXCEPT ![i] = "idle"]
              /\ SIMULATION_MUTEX' = [SIMULATION_MUTEX EXCEPT !.holder = Free]
              /\ attempt' = [attempt EXCEPT ![i] = 0]
         ELSE IF attempt[i] = max_attempts
           THEN /\ shutdown_outcome' = [shutdown_outcome EXCEPT ![i] = "timeout"]
                /\ shutdown_pc' = [shutdown_pc EXCEPT ![i] = "idle"]
                /\ SIMULATION_MUTEX' = [SIMULATION_MUTEX EXCEPT !.holder = Free]
                /\ attempt' = [attempt EXCEPT ![i] = 0]
           ELSE /\ attempt' = [attempt EXCEPT ![i] = attempt[i] + 1]
                /\ UNCHANGED <<shutdown_outcome, shutdown_pc, SIMULATION_MUTEX>>
    /\ UNCHANGED <<SIMULATION_LOOP_RUNNING, new_pc, loop_pc, shutdown_requested,
                   shutdown_complete, loop_was_running>>
    /\ UNCHANGED <<build_vars, graph_vars, aux_vars>>

\* one iteration of the poll loop: the two loads, then either the return or
\* sleep(50ms); falling out of the for loop returns as well (the guard drops)
ShutdownPoll(i) ==
    /\ shutdown_pc[i] = "poll"
    /\ IF ~SIMULATION_LOOP_RUNNING /\ shutdown_complete[i]
         THEN /\ shutdown_outcome' = [shutdown_outcome EXCEPT ![i] = "stopped"]
              /\ shutdown_pc' = [shutdown_pc EXCEPT ![i] = "idle"]
              /\ SIMULATION_MUTEX' = [SIMULATION_MUTEX EXCEPT !.holder = Free]
              /\ attempt' = [attempt EXCEPT ![i] = 0]
         ELSE IF attempt[i] = max_attempts - 1
           THEN /\ shutdown_outcome' = [shutdown_outcome EXCEPT ![i] = "timeout"]
                /\ shutdown_pc' = [shutdown_pc EXCEPT ![i] = "idle"]
                /\ SIMULATION_MUTEX' = [SIMULATION_MUTEX EXCEPT !.holder = Free]
                /\ attempt' = [attempt EXCEPT ![i] = 0]
           ELSE /\ attempt' = [attempt EXCEPT ![i] = attempt[i] + 1]
                /\ UNCHANGED <<shutdown_outcome, shutdown_pc, SIMULATION_MUTEX>>
    /\ UNCHANGED <<SIMULATION_LOOP_RUNNING, new_pc, loop_pc, shutdown_requested,
                   shutdown_complete, loop_was_running>>
    /\ UNCHANGED <<build_vars, graph_vars, aux_vars>>

(***************************************************************************)
(* GraphService::get_simulation_diagnostics                                *)
(***************************************************************************)
\* the call with SIMULATION_MUTEX.lock().await in place of try_lock()
DiagnosticsLock(i) ==
    /\ new_pc[i] = "returned"
    /\ diagnostics.pc # "loads"
    /\ SIMULATION_MUTEX.holder = Free
    /\ diagnostics' = [pc |-> "loads", inst |-> i,
                       holder |-> SIMULATION_MUTEX.holder,
                       value |-> SIMULATION_MUTEX.value,
                       current_id |-> SIMULATION_MUTEX.value,
                       is_active |-> (SIMULATION_MUTEX.value = i),
                       is_running |-> FALSE, shutdown_requested |-> FALSE]
    /\ UNCHANGED <<lifecycle_vars, build_vars, graph_vars, update_call, tick_vars, lock_state, broadcast_loop, page_call, settings>>

\* match SIMULATION_MUTEX.try_lock(): Ok(guard) clones the id and drops the
\* guard, Err(_) yields "Unable to acquire mutex";
\* let is_active = current_id == self.simulation_id.
\* holder and value record the mutex as the call found it
DiagnosticsTryLock(i) ==
    /\ new_pc[i] = "returned"
    /\ diagnostics.pc # "loads"
    /\ LET current_id == IF SIMULATION_MUTEX.holder = Free
                           THEN SIMULATION_MUTEX.value
                           ELSE Unavailable
       IN  diagnostics' = [pc |-> "loads", inst |-> i,
                           holder |-> SIMULATION_MUTEX.holder,
                           value |-> SIMULATION_MUTEX.value,
                           current_id |-> current_id,
                           is_active |-> (current_id = i),
                           is_running |-> FALSE, shutdown_requested |-> FALSE]
    /\ UNCHANGED <<lifecycle_vars, build_vars, graph_vars, update_call, tick_vars, lock_state, broadcast_loop, page_call, settings>>

\* the loads of SIMULATION_LOOP_RUNNING and self.shutdown_requested, and format!
DiagnosticsFormat(i) ==
    /\ diagnostics.pc = "loads"
    /\ diagnostics.inst = i
    /\ diagnostics' = [diagnostics EXCEPT
                          !.pc = "returned",
                          !.is_running = SIMULATION_LOOP_RUNNING,
                          !.shutdown_requested = shutdown_requested[i]]
    /\ UNCHANGED <<lifecycle_vars, build_vars, graph_vars, update_call, tick_vars, lock_state, broadcast_loop, page_call, settings>>

NextLifecycle ==
    \E i \in Instances :
        \/ NewLock(i)
        \/ NewSetId(i)
        \/ NewCompareExchange(i)
        \/ NewStoreFalse(i)
        \/ NewStoreTrue(i)
        \/ NewSpawn(i)
        \/ LoopCheck(i)
        \/ LoopAcquire(i)
        \/ LoopTick(i)
        \/ LoopInvalidate(i)
        \/ ShutdownLock(i)
        \/ ShutdownCompare(i)
        \/ ShutdownResetComplete(i)
        \/ ShutdownPoll(i)

\* no build is running and none has run
InitNoBuild ==
    /\ GRAPH_REBUILD_IN_PROGRESS = FALSE
    /\ metadata = <<>>
    /\ build_pc = [b \in Builders |-> "idle"]
    /\ build_result = [b \in Builders |-> "none"]
    /\ built_graph = [nodes |-> <<>>, edges |-> {}, metadata |-> <<>>]
    /\ next_node_id = 1

InitLifecycle ==
    InitLifecycleVars /\ InitNoBuild /\ InitNoService /\ InitReaders /\ InitTickIdle

SpecLifecycle == InitLifecycle /\ [][NextLifecycle]_vars

\* the lifecycle with get_simulation_diagnostics calls, one at a time
NextDiagnostics ==
    \/ NextLifecycle
    \/ \E i \in Instances :
          \/ DiagnosticsTryLock(i)
          \/ DiagnosticsFormat(i)

SpecDiagnostics == InitLifecycle /\ [][NextDiagnostics]_vars

(***************************************************************************)
(* GraphService::build_graph_from_metadata                                 *)
(***************************************************************************)
\* str::trim_end_matches(".md"): strips the suffix as often as it repeats
RECURSIVE TrimEndMatches(_)
TrimEndMatches(name) ==
    IF Len(name) > 0 /\ name[Len(name)] = ".md"
      THEN TrimEndMatches(SubSeq(name, 1, Len(name) - 1))
      ELSE name

\* the records a metadata store may hold: topic_counts maps file names to counts
TopicCounts ==
    UNION {[targets -> Counts] :
             targets \in {t \in SUBSET FileNames : Cardinality(t) <= MaxTopics}}

\* what Metadata::node_id may hold: nothing, a decimal number, something else
StoredIds == {<<>>, <<"7">>, <<"x">>}

DigitValue == ("7" :> 7)

\* u32::to_string and the like: the number as a string, not the number
to_string(n) == <<"decimal", n>>

\* a Metadata record of the store; the descriptive fields are fixed per file
Record(file_name, topic_counts, node_id) ==
    [file_name |-> file_name,
     file_size |-> 100 * Len(file_name),
     node_size |-> Len(file_name),
     hyperlink_count |-> Cardinality(DOMAIN topic_counts),
     sha1 |-> <<"sha1">> \o file_name,
     last_modified |-> <<"2024">>,
     topic_counts |-> topic_counts,
     node_id |-> node_id]

\* stores whose records differ in their topic_counts and carry no stored id
MetadataStores ==
    UNION {{[file_name \in keys |-> Record(file_name, counts[file_name], <<>>)] :
              counts \in [keys -> TopicCounts]} : keys \in SUBSET FileNames}

\* stores of up to two records that may list a file no record exists for
EdgeStores ==
    UNION {{[file_name \in keys |-> Record(file_name, counts[file_name], <<>>)] :
              counts \in [keys -> UNION {[targets -> Counts] :
                  targets \in {t \in SUBSET {<<"a", ".md">>, <<"b", ".md">>, <<"c", ".md">>} :
                                 Cardinality(t) <= MaxTopics}}]} :
           keys \in SUBSET {<<"a", ".md">>, <<"b", ".md">>}}

\* stores whose records differ in their stored id and list no topics
NodeStores ==
    UNION {{[file_name \in keys |-> Record(file_name, <<>>, ids[file_name])] :
              ids \in [keys -> StoredIds]} : keys \in SUBSET FileNames}

\* valid_nodes: the HashSet of the stripped metadata keys
ValidNodes(md) == {TrimEndMatches(file_name) : file_name \in DOMAIN md}

\* the orders in which `for node_id in &valid_nodes` may visit the HashSet
IterationOrders(set) ==
    {order \in [1..Cardinality(set) -> set] :
        \A m, n \in 1..Cardinality(set) : order[m] = order[n] => m = n}

\* s.parse::<u32>().ok(): Some(value) for a non-empty string of digits
RECURSIVE DecimalValue(_)
DecimalValue(s) ==
    IF s = <<>>
      THEN 0
      ELSE 10 * DecimalValue(SubSeq(s, 1, Len(s) - 1)) + DigitValue[s[Len(s)]]

ParseU32(s) ==
    IF Len(s) > 0 /\ \A c \in 1..Len(s) : s[c] \in DOMAIN DigitValue
      THEN [some |-> TRUE, value |-> DecimalValue(s)]
      ELSE [some |-> FALSE, value |-> 0]

\* graph.metadata.get(&format!("{}.md", node_id)).map(|m| m.node_id.clone())
\*     .and_then(|s| s.parse::<u32>().ok())
StoredNodeId(graph_metadata, node_id) ==
    IF Append(node_id, ".md") \in DOMAIN graph_metadata
      THEN ParseU32(graph_metadata[Append(node_id, ".md")].node_id)
      ELSE [some |-> FALSE, value |-> 0]

\* the flags a node has before the builder sets any
DefaultFlags == {0, 1}

\* Node::new_with_id(metadata_id, stored): the stored id if there is one, else
\* a fresh one from the counter
NewWithId(metadata_id, stored, fresh_id, default_flags) ==
    [id |-> IF stored.some THEN stored.value ELSE fresh_id,
     metadata_id |-> metadata_id,
     flags |-> default_flags,
     metadata |-> <<>>]

\* metadata.file_name without its last three characters when it ends_with(".md")
NameOf(file_name) ==
    IF Len(file_name) > 0 /\ file_name[Len(file_name)] = ".md"
      THEN SubSeq(file_name, 1, Len(file_name) - 1)
      ELSE file_name

\* the node.metadata.insert calls and node.data.flags = 1
WithMetadata(node, record) ==
    [node EXCEPT
       !.metadata = ("fileName" :> record.file_name)
                    @@ ("name" :> NameOf(record.file_name))
                    @@ ("metadataId" :> NameOf(record.file_name))
                    @@ ("fileSize" :> to_string(record.file_size))
                    @@ ("nodeSize" :> to_string(record.node_size))
                    @@ ("hyperlinkCount" :> to_string(record.hyperlink_count))
                    @@ ("sha1" :> record.sha1)
                    @@ ("lastModified" :> record.last_modified),
       !.flags = 1]

\* one iteration of `for node_id in &valid_nodes`: the stored id is looked up
\* in graph.metadata, the record in the metadata argument
CreateNode(md, graph_metadata, node_id, fresh_id, default_flags) ==
    LET node == NewWithId(node_id, StoredNodeId(graph_metadata, node_id),
                          fresh_id, default_flags)
    IN  IF Append(node_id, ".md") \in DOMAIN md
          THEN WithMetadata(node, md[Append(node_id, ".md")])
          ELSE node

\* how many of the nodes took their id from the counter
FreshIds(graph_metadata, order) ==
    Cardinality({n \in 1..Len(order) : ~StoredNodeId(graph_metadata, order[n]).some})

\* the node loop, in the order the HashSet is visited
RECURSIVE CreateNodes(_, _, _, _, _)
CreateNodes(md, graph_metadata, order, first_id, default_flags) ==
    IF order = <<>>
      THEN <<>>
      ELSE <<CreateNode(md, graph_metadata, Head(order), first_id, default_flags)>>
           \o CreateNodes(md, graph_metadata, Tail(order),
                          first_id + FreshIds(graph_metadata, <<Head(order)>>),
                          default_flags)

\* graph.nodes.iter().find(|n| n.metadata_id == id), as the set of matches'
\* first index; 0 when none
FindNode(nodes, id) ==
    IF \E n \in 1..Len(nodes) : nodes[n].metadata_id = id
      THEN CHOOSE n \in 1..Len(nodes) :
             /\ nodes[n].metadata_id = id
             /\ \A m \in 1..(n - 1) : nodes[m].metadata_id # id
      ELSE 0

\* EdgeKey without the swap
EdgeKeyAsListed(source_numeric_id, target_numeric_id) ==
    <<source_numeric_id, target_numeric_id>>

\* let edge_key = if source < target { (source, target) } else { (target, source) }
EdgeKey(source_numeric_id, target_numeric_id) ==
    IF source_numeric_id < target_numeric_id
      THEN <<source_numeric_id, target_numeric_id>>
      ELSE <<target_numeric_id, source_numeric_id>>

\* DifferentNodes without the comparison
DifferentNodesUnchecked(source_numeric_id, target_numeric_id) == TRUE

\* if source_numeric_id != target_numeric_id { ... }
DifferentNodes(source_numeric_id, target_numeric_id) ==
    source_numeric_id # target_numeric_id

\* edge_map.entry(edge_key).and_modify(|w| *w += count).or_insert(count)
EntryAndModifyOrInsert(edge_map, edge_key, count) ==
    IF edge_key \in DOMAIN edge_map
      THEN [edge_map EXCEPT ![edge_key] = @ + count]
      ELSE edge_map @@ (edge_key :> count)

\* the (source_file, target_file) pairs the two nested loops visit
TopicEntries(md) ==
    UNION {{<<source_file, target_file>> :
               target_file \in DOMAIN md[source_file].topic_counts} :
           source_file \in DOMAIN md}

\* ProcessEntry without the two `continue`s: an unresolved endpoint counts as id 0
ProcessEntryKeepUnresolved(md, nodes, edge_map, entry) ==
    LET source == FindNode(nodes, TrimEndMatches(entry[1]))
        target == FindNode(nodes, TrimEndMatches(entry[2]))
        source_numeric_id == IF source = 0 THEN 0 ELSE nodes[source].id
        target_numeric_id == IF target = 0 THEN 0 ELSE nodes[target].id
    IN  IF DifferentNodes(source_numeric_id, target_numeric_id)
          THEN EntryAndModifyOrInsert(edge_map,
                   EdgeKey(source_numeric_id, target_numeric_id),
                   md[entry[1]].topic_counts[entry[2]])
          ELSE edge_map

\* one iteration of the inner loop of the second pass
ProcessEntry(md, nodes, edge_map, entry) ==
    LET source == FindNode(nodes, TrimEndMatches(entry[1]))
        target == FindNode(nodes, TrimEndMatches(entry[2]))
    IN  IF source = 0 \/ target = 0
          THEN edge_map
          ELSE IF DifferentNodes(nodes[source].id, nodes[target].id)
            THEN EntryAndModifyOrInsert(edge_map,
                     EdgeKey(nodes[source].id, nodes[target].id),
                     md[entry[1]].topic_counts[entry[2]])
            ELSE edge_map

\* the second pass: every entry of every record, in the maps' iteration order
RECURSIVE SecondPass(_, _, _, _)
SecondPass(md, nodes, entries, edge_map) ==
    IF entries = {}
      THEN edge_map
      ELSE LET entry == CHOOSE e \in entries : TRUE
           IN  SecondPass(md, nodes, entries \ {entry},
                          ProcessEntry(md, nodes, edge_map, entry))

\* graph.edges = edge_map.into_iter().map(Edge::new).collect()
CollectEdges(edge_map) ==
    {[source |-> k[1], target |-> k[2], weight |-> edge_map[k]] : k \in DOMAIN edge_map}

\* GraphData::new()
EmptyGraph == [nodes |-> <<>>, edges |-> {}, metadata |-> <<>>]

\* the node loop runs on the new graph, whose metadata is assigned after it
BuildGraph(md, order, first_id, default_flags) ==
    LET nodes == CreateNodes(md, EmptyGraph.metadata, order, first_id, default_flags)
    IN  [nodes |-> nodes,
         edges |-> CollectEdges(SecondPass(md, nodes, TopicEntries(md), <<>>)),
         metadata |-> md]

InitBuilder ==
    /\ GRAPH_REBUILD_IN_PROGRESS = FALSE
    /\ metadata \in MetadataStores
    /\ build_pc = [b \in Builders |-> "idle"]
    /\ build_result = [b \in Builders |-> "none"]
    /\ built_graph = EmptyGraph
    /\ next_node_id = 1

\* BuildBegin with a plain store(true) in place of the compare_exchange
BuildBeginStore(b) ==
    /\ build_pc[b] = "idle"
    /\ GRAPH_REBUILD_IN_PROGRESS' = TRUE
    /\ build_pc' = [build_pc EXCEPT ![b] = "building"]
    /\ UNCHANGED <<build_result, metadata, built_graph, next_node_id, lifecycle_vars,
                   graph_vars, aux_vars>>

\* GRAPH_REBUILD_IN_PROGRESS.compare_exchange(false, true): on failure
\* return Err("Graph rebuild already in progress")
BuildBegin(b) ==
    /\ build_pc[b] = "idle"
    /\ IF GRAPH_REBUILD_IN_PROGRESS = FALSE
         THEN /\ GRAPH_REBUILD_IN_PROGRESS' = TRUE
              /\ build_pc' = [build_pc EXCEPT ![b] = "building"]
              /\ UNCHANGED build_result
         ELSE /\ build_pc' = [build_pc EXCEPT ![b] = "returned"]
              /\ build_result' = [build_result EXCEPT ![b] = "already in progress"]
              /\ UNCHANGED GRAPH_REBUILD_IN_PROGRESS
    /\ UNCHANGED <<metadata, built_graph, next_node_id, lifecycle_vars, graph_vars, aux_vars>>

\* a guard whose drop leaves the flag as it is
RebuildGuardLeaked(in_progress) == in_progress

\* impl Drop for RebuildGuard: GRAPH_REBUILD_IN_PROGRESS.store(false)
RebuildGuardDrop(in_progress) == FALSE

\* a panic while building (in a callee; the slice and the unwraps of the
\* function itself are guarded): the stack unwinds and drops _guard
BuildPanic(b) ==
    /\ build_pc[b] = "building"
    /\ GRAPH_REBUILD_IN_PROGRESS' = RebuildGuardDrop(GRAPH_REBUILD_IN_PROGRESS)
    /\ build_pc' = [build_pc EXCEPT ![b] = "returned"]
    /\ build_result' = [build_result EXCEPT ![b] = "panicked"]
    /\ UNCHANGED <<metadata, built_graph, next_node_id, lifecycle_vars, graph_vars,
                   aux_vars>>

\* the two passes, Ok(graph), and RebuildGuard's drop
BuildFinish(b) ==
    /\ build_pc[b] = "building"
    /\ \E order \in IterationOrders(ValidNodes(metadata)), default_flags \in DefaultFlags :
          /\ built_graph' = BuildGraph(metadata, order, next_node_id, default_flags)
          /\ next_node_id' = next_node_id + FreshIds(EmptyGraph.metadata, order)
    /\ GRAPH_REBUILD_IN_PROGRESS' = RebuildGuardDrop(GRAPH_REBUILD_IN_PROGRESS)
    /\ build_pc' = [build_pc EXCEPT ![b] = "returned"]
    /\ build_result' = [build_result EXCEPT ![b] = "ok"]
    /\ UNCHANGED <<metadata, lifecycle_vars, graph_vars, aux_vars>>

NextBuild ==
    \E b \in Builders :
        \/ BuildBegin(b)
        \/ BuildFinish(b)

InitBuild ==
    InitLifecycleVars /\ InitBuilder /\ InitNoService /\ InitReaders /\ InitTickIdle

SpecBuild == InitBuild /\ [][NextBuild]_vars

\* the builder on stores whose records carry stored ids
InitNodes ==
    /\ InitLifecycleVars /\ InitNoService /\ InitReaders /\ InitTickIdle
    /\ GRAPH_REBUILD_IN_PROGRESS = FALSE
    /\ metadata \in NodeStores
    /\ build_pc = [b \in Builders |-> "idle"]
    /\ build_result = [b \in Builders |-> "none"]
    /\ built_graph = EmptyGraph
    /\ next_node_id = 1

SpecNodes == InitNodes /\ [][NextBuild]_vars

\* the builder on stores whose records may list files that have no record
InitEdges ==
    /\ InitLifecycleVars /\ InitNoService /\ InitReaders /\ InitTickIdle
    /\ GRAPH_REBUILD_IN_PROGRESS = FALSE
    /\ metadata \in EdgeStores
    /\ build_pc = [b \in Builders |-> "idle"]
    /\ build_result = [b \in Builders |-> "none"]
    /\ built_graph = EmptyGraph
    /\ next_node_id = 1

SpecEdges == InitEdges /\ [][NextBuild]_vars

(***************************************************************************)
(* The node position cache, the rate limiter and update_node_positions.    *)
(***************************************************************************)
\* the steps by which the clock advances
TimeSteps == {UPDATE_RATE_LIMIT_MS, NODE_POSITION_CACHE_TTL_MS - UPDATE_RATE_LIMIT_MS}

AdvanceTime ==
    /\ \E d \in TimeSteps :
          /\ now + d <= MaxTime
          /\ now' = now + d
    /\ UNCHANGED <<lifecycle_vars, build_vars, aux_vars, service_vars, read_vars, history_vars>>

\* an age that is always zero
DurationSinceZero(later, earlier) == 0

\* Instant::duration_since saturates to zero
DurationSince(later, earlier) == IF later >= earlier THEN later - earlier ELSE 0

\* the freshness test the wrong way round
CacheFreshInverted(age) == age >= NODE_POSITION_CACHE_TTL_MS

\* if age < Duration::from_millis(NODE_POSITION_CACHE_TTL_MS)
CacheFresh(age) == age < NODE_POSITION_CACHE_TTL_MS

\* the record of a call's return
Returned(i, nodes, start, stale) ==
    [inst |-> i, nodes |-> nodes, start |-> start, quiet |-> TRUE, stale |-> stale]

\* get_node_positions up to its first suspension: start_time, then the cache
\* check (cache_enabled is true in every instance); a fresh entry is returned
ReadStart(r, i) ==
    /\ read_pc[r] = "idle"
    /\ new_pc[i] = "returned"
    /\ IF /\ node_positions_cache[i].some
          /\ CacheFresh(DurationSince(now, node_positions_cache[i].timestamp))
         THEN /\ last_read' = Returned(i, node_positions_cache[i].nodes, now,
                                       cache_stale[i])
              /\ read_sequential' = [q \in Readers |-> FALSE]
              /\ UNCHANGED read_vars
         ELSE /\ read_pc' = [read_pc EXCEPT ![r] = "fetch"]
              /\ read_inst' = [read_inst EXCEPT ![r] = i]
              /\ read_start' = [read_start EXCEPT ![r] = now]
              /\ read_sequential' = [read_sequential EXCEPT ![r] = TRUE]
              /\ UNCHANGED <<read_nodes, last_read>>
    /\ UNCHANGED <<lifecycle_vars, build_vars, aux_vars, now, service_vars, cache_stale,
                   read_stale>>

\* let graph = self.graph_data.read().await; graph.nodes.clone()
ReadGraph(r) ==
    /\ read_pc[r] = "fetch"
    /\ loop_pc[read_inst[r]] # "tick"
    /\ read_nodes' = [read_nodes EXCEPT ![r] = graph_data[read_inst[r]].nodes]
    /\ read_stale' = [read_stale EXCEPT ![r] = FALSE]
    /\ read_pc' = [read_pc EXCEPT ![r] = "store"]
    /\ UNCHANGED <<lifecycle_vars, build_vars, aux_vars, now, service_vars, read_inst,
                   read_start, cache_stale, read_sequential, last_read>>

\* *cache = Some((nodes.clone(), start_time)); nodes
ReadStore(r) ==
    /\ read_pc[r] = "store"
    /\ node_positions_cache' =
          [node_positions_cache EXCEPT ![read_inst[r]] =
              Some(read_nodes[r], read_start[r])]
    /\ cache_stale' = [cache_stale EXCEPT ![read_inst[r]] = read_stale[r]]
    /\ last_read' = Returned(read_inst[r], read_nodes[r], read_start[r], FALSE)
    /\ read_sequential' = [q \in Readers |-> FALSE]
    /\ read_pc' = [read_pc EXCEPT ![r] = "idle"]
    /\ read_inst' = [read_inst EXCEPT ![r] = NoId]
    /\ read_start' = [read_start EXCEPT ![r] = 0]
    /\ read_nodes' = [read_nodes EXCEPT ![r] = <<>>]
    /\ read_stale' = [read_stale EXCEPT ![r] = FALSE]
    /\ UNCHANGED <<lifecycle_vars, build_vars, aux_vars, now, graph_data, node_map, last_update>>

\* clear_position_cache
ClearCache(i) ==
    /\ new_pc[i] = "returned"
    /\ node_positions_cache' = [node_positions_cache EXCEPT ![i] = None]
    /\ cache_stale' = [cache_stale EXCEPT ![i] = FALSE]
    /\ read_stale' = [r \in Readers |->
                        IF read_inst[r] = i THEN TRUE ELSE read_stale[r]]
    /\ last_read' = [last_read EXCEPT !.quiet = FALSE]
    /\ UNCHANGED <<lifecycle_vars, build_vars, aux_vars, now, graph_data, node_map, last_update,
                   read_vars, read_sequential>>

\* should_rate_limit that never limits
RateLimitedNever(t, last) == FALSE

\* should_rate_limit: now.duration_since(last).as_millis() < UPDATE_RATE_LIMIT_MS
RateLimited(t, last) == DurationSince(t, last) < UPDATE_RATE_LIMIT_MS

\* an update that replaces the node as a whole
ResolvedNodeWhole(existing_node, update_node) == update_node

\* resolved_node = update_node.clone() with the existing node's mass, flags
\* and metadata
ResolvedNode(existing_node, update_node) ==
    [update_node EXCEPT !.data.mass = existing_node.data.mass,
                        !.data.flags = existing_node.data.flags,
                        !.metadata = existing_node.metadata]

\* the loop over the updates: a rate-limited update is skipped, any other
\* advances last_update and replaces the node in the map when its id is there
RECURSIVE ProcessUpdates(_, _, _, _)
ProcessUpdates(updates, map, last, t) ==
    IF updates = <<>>
      THEN [node_map |-> map, last_update |-> last]
      ELSE LET node_id == Head(updates)[1]
               update_node == Head(updates)[2]
           IN  IF RateLimited(t, last)
                 THEN ProcessUpdates(Tail(updates), map, last, t)
                 ELSE ProcessUpdates(Tail(updates),
                        IF node_id \in DOMAIN map
                          THEN [map EXCEPT ![node_id] = ResolvedNode(@, update_node)]
                          ELSE map,
                        t, t)

\* graph.nodes.iter_mut().for_each(|node| node.data = node_map[node.id].data)
SyncNodes(nodes, map) ==
    [n \in DOMAIN nodes |->
        IF nodes[n].id \in DOMAIN map
          THEN [nodes[n] EXCEPT !.data = map[nodes[n].id].data]
          ELSE nodes[n]]

\* Node.metadata, by its keys: what build_graph_from_metadata inserts, and
\* the empty map of a node sent by a client
BuiltMetadata == {"fileSize"}
ClientMetadata == {}

NodeRecord(id, position) ==
    [id |-> id, data |-> [position |-> position, velocity |-> 0, mass |-> 10, flags |-> 1],
     metadata |-> BuiltMetadata]

\* the ids an update may name: the node of the graph and one that is not in it
UpdateIds == {1, 2}

UpdateBatches ==
    UNION {[1..n -> {<<id, NodeRecord(id, position)>> :
                        id \in UpdateIds, position \in Positions}] :
             n \in 1..MaxUpdates}

\* the batches of at most len updates for those ids with those data
UpdateBatchesOf(ids, datas, len) ==
    UNION {[1..n -> {<<node_id, [id |-> node_id, data |-> node_data,
                                 metadata |-> ClientMetadata]>> :
                        node_id \in ids, node_data \in datas}] :
             n \in 1..len}

\* update_node_positions, under the graph and node map write locks
UpdateNodePositionsWith(i, batches) ==
    /\ new_pc[i] = "returned"
    /\ loop_pc[i] # "tick"
    /\ \E updates \in batches :
          LET done == ProcessUpdates(updates, node_map[i], last_update[i], now)
          IN  /\ node_map' = [node_map EXCEPT ![i] = done.node_map]
              /\ last_update' = [last_update EXCEPT ![i] = done.last_update]
              /\ graph_data' = [graph_data EXCEPT ![i].nodes = SyncNodes(@, done.node_map)]
    /\ UNCHANGED <<lifecycle_vars, build_vars, aux_vars, now, node_positions_cache, read_vars,
                   history_vars>>

\* update_node_positions with updates that change positions only
UpdateNodePositions(i) == UpdateNodePositionsWith(i, UpdateBatches)

\* one instance has been constructed and its graph and node map filled;
\* its loop is running
InitRunningOn(graph, map) ==
    /\ SIMULATION_LOOP_RUNNING = TRUE
    /\ SIMULATION_MUTEX = [value |-> 1, holder |-> Free]
    /\ new_pc = [i \in Instances |-> IF i = 1 THEN "returned" ELSE "unborn"]
    /\ loop_pc = [i \in Instances |-> IF i = 1 THEN "check" ELSE "none"]
    /\ shutdown_pc = [i \in Instances |-> "idle"]
    /\ attempt = [i \in Instances |-> 0]
    /\ shutdown_requested = [i \in Instances |-> FALSE]
    /\ shutdown_complete = [i \in Instances |-> FALSE]
    /\ shutdown_outcome = [i \in Instances |-> "none"]
    /\ loop_was_running = [i \in Instances |-> FALSE]
    /\ InitNoBuild
    /\ now = 0
    /\ graph_data = [i \in Instances |->
                       IF i = 1 THEN graph ELSE GraphDataDefault]
    /\ node_map = [i \in Instances |-> IF i = 1 THEN map ELSE <<>>]
    /\ node_positions_cache = [i \in Instances |-> None]
    /\ last_update = [i \in Instances |-> 0]
    /\ InitReaders

\* the same with a graph that has no edges
InitRunningWith(nodes, map) == InitRunningOn([nodes |-> nodes, edges |-> {}], map)

\* the same with a built graph's one node
InitRunning == InitRunningWith(<<NodeRecord(1, 0)>>, 1 :> NodeRecord(1, 0))

InitCache == InitRunning /\ InitTickIdle

NextCache ==
    \/ AdvanceTime
    \/ \E i \in Instances :
          \/ LoopCheck(i)
          \/ LoopAcquire(i)
          \/ LoopTick(i)
          \/ LoopInvalidate(i)
          \/ ClearCache(i)
          \/ UpdateNodePositions(i)
          \/ \E r \in Readers : ReadStart(r, i)
    \/ \E r \in Readers :
          \/ ReadGraph(r)
          \/ ReadStore(r)

SpecCache == InitCache /\ [][NextCache]_vars

(***************************************************************************)
(* update_node_positions on batches of several updates, one update at a    *)
(* time: should_rate_limit reads the clock anew for each.                  *)
(***************************************************************************)
UpdateBatchesUpTo(len) ==
    UNION {[1..n -> {<<id, NodeRecord(id, position)>> :
                        id \in UpdateIds, position \in Positions}] :
             n \in 1..len}

\* one iteration of the loop that applies the update although the rate
\* limiter rejected it
ProcessUpdateNoSkip(update, map, last, t) ==
    [node_map |-> IF update[1] \in DOMAIN map
                    THEN [map EXCEPT ![update[1]] = ResolvedNode(@, update[2])]
                    ELSE map,
     last_update |-> IF RateLimited(t, last) THEN last ELSE t,
     accepted |-> ~RateLimited(t, last)]

\* one iteration of `for (node_id_u32, update_node) in updates`
ProcessUpdate(update, map, last, t) ==
    IF RateLimited(t, last)
      THEN [node_map |-> map, last_update |-> last, accepted |-> FALSE]
      ELSE [node_map |-> IF update[1] \in DOMAIN map
                           THEN [map EXCEPT ![update[1]] = ResolvedNode(@, update[2])]
                           ELSE map,
            last_update |-> t,
            accepted |-> TRUE]

\* self.graph_data.write().await; self.node_map.write().await
UpdateBeginWith(i, batches) ==
    /\ new_pc[i] = "returned"
    /\ loop_pc[i] # "tick"
    /\ update_call.pc # "running"
    /\ \E updates \in batches :
          update_call' = [pc |-> "running", inst |-> i, updates |-> updates,
                          accepted |-> <<>>,
                          before |-> <<graph_data[i].nodes, node_map[i], last_update[i]>>]
    /\ UNCHANGED <<lifecycle_vars, build_vars, tick_vars, diagnostics, lock_state, broadcast_loop, page_call, settings, graph_vars>>

\* the same with updates that change positions only
UpdateBegin(i) == UpdateBeginWith(i, UpdateBatchesUpTo(MaxBatch))

\* the next update of the batch
UpdateOne(i) ==
    /\ update_call.pc = "running"
    /\ update_call.inst = i
    /\ Len(update_call.accepted) < Len(update_call.updates)
    /\ LET update == update_call.updates[Len(update_call.accepted) + 1]
           done == ProcessUpdate(update, node_map[i], last_update[i], now)
       IN  /\ node_map' = [node_map EXCEPT ![i] = done.node_map]
           /\ last_update' = [last_update EXCEPT ![i] = done.last_update]
           /\ update_call' = [update_call EXCEPT !.accepted = Append(@, done.accepted)]
    /\ UNCHANGED <<lifecycle_vars, build_vars, tick_vars, diagnostics, lock_state, broadcast_loop, page_call, settings, now, graph_data, node_positions_cache,
                   read_vars, history_vars>>

\* the sync of the graph's nodes with the node map, the broadcast, Ok(())
UpdateFinish(i) ==
    /\ update_call.pc = "running"
    /\ update_call.inst = i
    /\ Len(update_call.accepted) = Len(update_call.updates)
    /\ graph_data' = [graph_data EXCEPT ![i].nodes = SyncNodes(@, node_map[i])]
    /\ update_call' = [update_call EXCEPT !.pc = "returned"]
    /\ UNCHANGED <<lifecycle_vars, build_vars, tick_vars, diagnostics, lock_state, broadcast_loop, page_call, settings, now, node_map, node_positions_cache,
                   last_update, read_vars, history_vars>>

NextRate ==
    \/ AdvanceTime
    \/ \E i \in Instances :
          \/ LoopCheck(i)
          \/ LoopAcquire(i)
          \/ LoopTick(i)
          \/ LoopInvalidate(i)
          \/ UpdateBegin(i)
          \/ UpdateOne(i)
          \/ UpdateFinish(i)

SpecRate == InitCache /\ [][NextRate]_vars

(***************************************************************************)
(* The physics step of the loop's iteration: GPU with retry, CPU fallback, *)
(* CPU alone, or skipped; then the broadcast.                              *)
(***************************************************************************)
RECURSIVE Pow2(_)
Pow2(n) == IF n = 0 THEN 1 ELSE 2 * Pow2(n - 1)

\* let delay = GPU_RETRY_DELAY_MS * (1 << attempt)
RetryDelay(n) == GPU_RETRY_DELAY_MS * Pow2(n)

\* the io::Error of the GPU attempt of that index, and that of the CPU path
GpuError(n) == <<"gpu error", n>>

CpuError == <<"cpu error">>

Ok == <<"Ok">>

\* what GPUCompute::get_node_data may hand back for the graph's nodes: data
\* for the first few of them, any of the given data
GpuNodeData(nodes, datas) ==
    UNION {[1..n -> datas] : n \in 0..Len(nodes)}

\* node.data = updated_nodes[i] for every node the GPU returned data for
GpuResult(nodes, updated_nodes) ==
    [n \in DOMAIN nodes |->
        IF n \in DOMAIN updated_nodes
          THEN [nodes[n] EXCEPT !.data = updated_nodes[n]]
          ELSE nodes[n]]

\* the tick's write of the graph's nodes and their mirror in the node map
WriteLayout(i, result) ==
    /\ graph_data' = [graph_data EXCEPT ![i].nodes = result]
    /\ node_map' = [node_map EXCEPT ![i] = MirrorIntoMap(@, result)]
    /\ MarkStale(i, result # graph_data[i].nodes)
    /\ last_read' = [last_read EXCEPT !.quiet = FALSE]

\* a calculate_layout_cpu that may fail
CpuResultsFailing == {"Ok", "Err"}

\* the results calculate_layout_cpu returns: Ok(()) on every path of the
\* code; Err when the fault is injected
CpuResults == IF cpu_fault THEN {"Ok", "Err"} ELSE {"Ok"}

\* history: the ticks the loop has started since shutdown_requested was set,
\* this one included (counted up to MaxTicksAfterRequest)
TicksAfterRequest(i) ==
    IF ~shutdown_requested[i]
      THEN 0
      ELSE IF tick[i].after_request < MaxTicksAfterRequest
        THEN tick[i].after_request + 1
        ELSE MaxTicksAfterRequest

\* the loop reading the live settings at every iteration
PhysicsEnabledLive(i) == settings.live.enabled

\* physics_settings.enabled of the clone the task owns
PhysicsEnabled(i) == physics_enabled[i]

\* if physics_settings.enabled { if let Some(gpu) = &gpu_compute {..} else {..} }
TickStart(i) ==
    /\ loop_pc[i] = "tick"
    /\ tick[i].pc = "idle"
    /\ tick' = [tick EXCEPT ![i] =
                  [(IF ~PhysicsEnabled(i)
                      THEN [NoTick EXCEPT !.pc = "finished", !.result = <<"skipped">>]
                      ELSE IF gpu_compute[i] THEN [NoTick EXCEPT !.pc = "gpu"]
                                             ELSE [NoTick EXCEPT !.pc = "cpu"])
                   EXCEPT !.after_request = TicksAfterRequest(i),
                          !.params = SimulationParams(settings.physics_settings[i])]]
    /\ UNCHANGED <<lifecycle_vars, build_vars, graph_vars, update_call, diagnostics, lock_state, broadcast_loop, page_call, settings, gpu_compute,
                   physics_enabled, cpu_fault>>

\* the arm of `match` an attempt that failed takes, without the test of
\* attempt + 1 < MAX_GPU_CALCULATION_RETRIES before the sleep
AfterGpuErrorAlwaysSleep(t) ==
    [t EXCEPT !.gpu_calls = @ + 1, !.last_error = GpuError(t.attempt),
              !.pc = "backoff"]

\* Err(e) => { let delay = ..; last_error = Some(e);
\*             if attempt + 1 < MAX_GPU_CALCULATION_RETRIES { sleep(delay) } }
AfterGpuError(t) ==
    [t EXCEPT !.gpu_calls = @ + 1, !.last_error = GpuError(t.attempt),
              !.pc = IF t.attempt + 1 < MAX_GPU_CALCULATION_RETRIES
                       THEN "backoff" ELSE "next"]

\* the GPUCompute calls of calculate_layout, in the order of the code
Stages == <<"update_graph_data", "update_simulation_params", "step", "get_node_data">>

\* the io::Error a GPUCompute call returns
StageError(stage) == <<"error of", stage>>

\* how the accelerator may behave in one calculate_layout call: the calls
\* that return Err when made, and the data get_node_data returns when it
\* returns Ok
GpuBehaviours(nodes, datas, failing) ==
    {[fails |-> fails, node_data |-> node_data] :
        fails \in SUBSET failing, node_data \in GpuNodeData(nodes, datas)}

\* the write loop after the read-back: node.data = updated_nodes[i] and
\* map_node.data = updated_nodes[i] for the nodes the GPU returned data for
WrittenBack(nodes, map, updated_nodes) ==
    [result |-> Ok, ran |-> Stages,
     nodes |-> GpuResult(nodes, updated_nodes),
     node_map |-> MirrorIntoMap(map,
                     SubSeq(GpuResult(nodes, updated_nodes), 1, Len(updated_nodes)))]

\* calculate_layout that makes every call, writes the nodes whatever the
\* calls returned, and then returns the first error
CalculateLayoutUnchecked(nodes, map, gpu) ==
    IF \E k \in DOMAIN Stages : Stages[k] \in gpu.fails
      THEN [WrittenBack(nodes, map, gpu.node_data) EXCEPT
              !.result = StageError(Stages[CHOOSE k \in DOMAIN Stages :
                            /\ Stages[k] \in gpu.fails
                            /\ \A j \in 1..(k - 1) : Stages[j] \notin gpu.fails])]
      ELSE WrittenBack(nodes, map, gpu.node_data)

\* calculate_layout: each call's Err is returned at once; after the four
\* calls the nodes and their map entries are written
CalculateLayout(nodes, map, gpu) ==
    IF Stages[1] \in gpu.fails
      THEN [result |-> StageError(Stages[1]), ran |-> SubSeq(Stages, 1, 1),
            nodes |-> nodes, node_map |-> map]
    ELSE IF Stages[2] \in gpu.fails
      THEN [result |-> StageError(Stages[2]), ran |-> SubSeq(Stages, 1, 2),
            nodes |-> nodes, node_map |-> map]
    ELSE IF Stages[3] \in gpu.fails
      THEN [result |-> StageError(Stages[3]), ran |-> SubSeq(Stages, 1, 3),
            nodes |-> nodes, node_map |-> map]
    ELSE IF Stages[4] \in gpu.fails
      THEN [result |-> StageError(Stages[4]), ran |-> SubSeq(Stages, 1, 4),
            nodes |-> nodes, node_map |-> map]
    ELSE WrittenBack(nodes, map, gpu.node_data)

\* one calculate_layout call of `for attempt in 0..MAX_GPU_CALCULATION_RETRIES`
GpuAttemptFrom(i, datas, failing) ==
    /\ loop_pc[i] = "tick"
    /\ tick[i].pc = "gpu"
    /\ \E gpu \in GpuBehaviours(graph_data[i].nodes, datas, failing) :
          LET done == CalculateLayout(graph_data[i].nodes, node_map[i], gpu)
              called == [tick[i] EXCEPT !.fails = gpu.fails, !.ran = done.ran,
                                        !.attempt_result = done.result]
          IN  /\ graph_data' = [graph_data EXCEPT ![i].nodes = done.nodes]
              /\ node_map' = [node_map EXCEPT ![i] = done.node_map]
              /\ IF done.result = Ok
                   THEN /\ MarkStale(i, done.nodes # graph_data[i].nodes)
                        /\ last_read' = [last_read EXCEPT !.quiet = FALSE]
                        /\ tick' = [tick EXCEPT ![i] =
                                      [called EXCEPT
                                         !.gpu_calls = @ + 1, !.result = Ok,
                                         !.pc = "finished", !.wrote = TRUE,
                                         !.written = done.nodes]]
                   ELSE /\ tick' = [tick EXCEPT ![i] = AfterGpuError(called)]
                        /\ UNCHANGED <<cache_stale, read_stale, last_read>>
    /\ UNCHANGED <<lifecycle_vars, build_vars, now, node_positions_cache, last_update,
                   read_vars, read_sequential, update_call, diagnostics, lock_state, broadcast_loop, page_call, settings, gpu_compute,
                   physics_enabled, cpu_fault>>

\* the same with data that change positions only and a step that may fail
GpuAttempt(i) == GpuAttemptFrom(i, PlainDatas, {"step"})

\* a for loop that ends after its first iteration
AttemptsLeftNone(n) == FALSE

\* `for attempt in 0..MAX_GPU_CALCULATION_RETRIES` has an iteration after n
AttemptsLeft(n) == n + 1 < MAX_GPU_CALCULATION_RETRIES

\* tokio::time::sleep(Duration::from_millis(delay)) is over, or was not
\* called; the for loop's next attempt, or its end
GpuBackoff(i) ==
    /\ loop_pc[i] = "tick"
    /\ tick[i].pc \in {"backoff", "next"}
    /\ tick' = [tick EXCEPT
                  ![i].delays = IF tick[i].pc = "backoff"
                                  THEN Append(@, RetryDelay(tick[i].attempt)) ELSE @,
                  ![i].attempt = @ + 1,
                  ![i].pc = IF AttemptsLeft(tick[i].attempt)
                              THEN "gpu" ELSE "fallback"]
    /\ UNCHANGED <<lifecycle_vars, build_vars, graph_vars, update_call, diagnostics, lock_state, broadcast_loop, page_call, settings, gpu_compute,
                   physics_enabled, cpu_fault>>

\* the fallback's Err arm returning the CPU error
FallbackErrorOfCpu(last_error) == CpuError

\* Err(cpu_err) => Err(last_error.unwrap_or_else(..))
FallbackError(last_error) ==
    IF last_error # <<"None">> THEN last_error ELSE <<"all attempts failed">>

\* match Self::calculate_layout_cpu(graph, node_map, params), after the attempts
CpuFallbackFrom(i, datas) ==
    /\ loop_pc[i] = "tick"
    /\ tick[i].pc = "fallback"
    /\ \E cpu_result \in CpuResults :
          IF cpu_result = "Ok"
            THEN \E result \in LayoutResults(graph_data[i].nodes, datas) :
                    /\ WriteLayout(i, result)
                    /\ tick' = [tick EXCEPT
                                  ![i].cpu_calls = @ + 1, ![i].result = Ok,
                                  ![i].pc = "finished", ![i].wrote = TRUE,
                                  ![i].written = result]
            ELSE /\ tick' = [tick EXCEPT ![i].cpu_calls = @ + 1,
                                         ![i].result = FallbackError(tick[i].last_error),
                                         ![i].pc = "finished"]
                 /\ UNCHANGED <<graph_data, node_map, cache_stale, read_stale, last_read>>
    /\ UNCHANGED <<lifecycle_vars, build_vars, now, node_positions_cache, last_update,
                   read_vars, read_sequential, update_call, diagnostics, lock_state, broadcast_loop, page_call, settings, gpu_compute,
                   physics_enabled, cpu_fault>>

\* the same with data that change positions only
CpuFallback(i) == CpuFallbackFrom(i, PlainDatas)

\* Self::calculate_layout_cpu(&mut graph, &mut node_map, &params), no GPU
TickCpuFrom(i, datas) ==
    /\ loop_pc[i] = "tick"
    /\ tick[i].pc = "cpu"
    /\ \E cpu_result \in CpuResults :
          IF cpu_result = "Ok"
            THEN \E result \in LayoutResults(graph_data[i].nodes, datas) :
                    /\ WriteLayout(i, result)
                    /\ tick' = [tick EXCEPT
                                  ![i].cpu_calls = @ + 1, ![i].result = Ok,
                                  ![i].pc = "finished", ![i].wrote = TRUE,
                                  ![i].written = result]
            ELSE /\ tick' = [tick EXCEPT ![i].cpu_calls = @ + 1,
                                         ![i].result = CpuError,
                                         ![i].pc = "finished"]
                 /\ UNCHANGED <<graph_data, node_map, cache_stale, read_stale, last_read>>
    /\ UNCHANGED <<lifecycle_vars, build_vars, now, node_positions_cache, last_update,
                   read_vars, read_sequential, update_call, diagnostics, lock_state, broadcast_loop, page_call, settings, gpu_compute,
                   physics_enabled, cpu_fault>>

\* the same with data that change positions only
TickCpu(i) == TickCpuFrom(i, PlainDatas)

\* nodes.iter().map(|node| (node.id, node.data)).collect()
PositionsToEncode(nodes) == [n \in DOMAIN nodes |-> <<nodes[n].id, nodes[n].data>>]

\* the loop broadcasting the cached snapshot
BroadcastArgumentCached(i) == node_positions_cache[i].nodes

\* the `&graph.nodes` of Self::broadcast_positions(.., &graph.nodes)
BroadcastArgument(i) == graph_data[i].nodes

\* the loop's use of the computation's result
BroadcastsNever(result) == FALSE

\* if let Err(e) = .. { error!(..) } else { Self::broadcast_positions(..) }
Broadcasts(result) == result = Ok

\* the loop leaving through the error of its computation, as `?` would
TickEndPropagates(i) ==
    /\ loop_pc[i] = "tick"
    /\ tick[i].pc = "finished"
    /\ tick' = [tick EXCEPT ![i].broadcast = Broadcasts(tick[i].result),
                            ![i].sent = IF Broadcasts(tick[i].result)
                                          THEN PositionsToEncode(BroadcastArgument(i))
                                          ELSE <<>>,
                            ![i].pc = "idle"]
    /\ loop_pc' = [loop_pc EXCEPT ![i] = IF tick[i].result \in {Ok, <<"skipped">>}
                                           THEN "sleep" ELSE "exited"]
    /\ UNCHANGED <<SIMULATION_LOOP_RUNNING, SIMULATION_MUTEX, new_pc, shutdown_pc,
                   attempt, shutdown_requested, shutdown_complete, shutdown_outcome,
                   loop_was_running>>
    /\ UNCHANGED <<build_vars, graph_vars, update_call, diagnostics, lock_state, broadcast_loop, page_call, settings, gpu_compute, physics_enabled,
                   cpu_fault>>

\* the error is logged or the positions are broadcast; drop(graph);
\* drop(node_map)
TickEnd(i) ==
    /\ loop_pc[i] = "tick"
    /\ tick[i].pc = "finished"
    /\ tick' = [tick EXCEPT ![i].broadcast = Broadcasts(tick[i].result),
                            ![i].sent = IF Broadcasts(tick[i].result)
                                          THEN PositionsToEncode(BroadcastArgument(i))
                                          ELSE <<>>,
                            ![i].pc = "idle"]
    /\ loop_pc' = [loop_pc EXCEPT ![i] = "sleep"]
    /\ UNCHANGED <<SIMULATION_LOOP_RUNNING, SIMULATION_MUTEX, new_pc, shutdown_pc,
                   attempt, shutdown_requested, shutdown_complete, shutdown_outcome,
                   loop_was_running>>
    /\ UNCHANGED <<build_vars, graph_vars, update_call, diagnostics, lock_state, broadcast_loop, page_call, settings, gpu_compute, physics_enabled,
                   cpu_fault>>

\* instance 1 is constructed with or without an accelerator, with physics
\* enabled or not
InitTick ==
    /\ InitRunning
    /\ gpu_compute \in {f \in [Instances -> BOOLEAN] : \A i \in Instances : i # 1 => ~f[i]}
    /\ physics_enabled \in {f \in [Instances -> BOOLEAN] :
                              \A i \in Instances : i # 1 => f[i]}
    /\ cpu_fault = FALSE
    /\ tick = [i \in Instances |-> NoTick]

\* the same with calculate_layout_cpu made to fail at will
InitFault ==
    /\ InitRunning
    /\ gpu_compute \in {f \in [Instances -> BOOLEAN] : \A i \in Instances : i # 1 => ~f[i]}
    /\ physics_enabled \in {f \in [Instances -> BOOLEAN] :
                              \A i \in Instances : i # 1 => f[i]}
    /\ cpu_fault = TRUE
    /\ tick = [i \in Instances |-> NoTick]

NextTick ==
    \E i \in Instances :
        \/ LoopCheck(i)
        \/ LoopAcquire(i)
        \/ TickStart(i)
        \/ GpuAttempt(i)
        \/ GpuBackoff(i)
        \/ CpuFallback(i)
        \/ TickCpu(i)
        \/ TickEnd(i)
        \/ LoopInvalidate(i)
        \/ NewLock(i)
        \/ NewSetId(i)
        \/ NewCompareExchange(i)
        \/ NewStoreFalse(i)
        \/ NewStoreTrue(i)
        \/ NewSpawn(i)
        \/ ShutdownLock(i)
        \/ ShutdownCompare(i)
        \/ ShutdownResetComplete(i)
        \/ ShutdownPoll(i)

SpecTick == InitTick /\ [][NextTick]_vars

SpecFault == InitFault /\ [][NextTick]_vars

(***************************************************************************)
(* The lock protocol: what each task requests, holds and drops, in order.  *)
(* tokio's RwLock grants requests first-in, first-out.                     *)
(***************************************************************************)
Write(lock) == <<"write", lock>>

Read(lock) == <<"read", lock>>

Drop(lock) == <<"drop", lock>>

Sleep == <<"sleep", "none">>

\* a point where the code takes one of several ways on
Branch(ways) == <<"branch", ways>>

\* calculate_layout_with_retry from the attempt of that number on: every
\* calculate_layout call takes and drops gpu_compute.write(); it succeeds, or
\* fails and, unless it was the last, the back-off sleep and the next follow
RECURSIVE GpuAttemptsProgram(_)
GpuAttemptsProgram(n) ==
    <<Write("gpu_compute"), Drop("gpu_compute"),
      Branch(IF n = MAX_GPU_CALCULATION_RETRIES
               THEN {<<>>}
               ELSE {<<>>, <<Sleep>> \o GpuAttemptsProgram(n + 1)})>>

\* one iteration of the simulation loop: the physics step runs without an
\* accelerator (or not at all), or with one
LoopProgram ==
    <<Write("graph_data"), Write("node_map"),
      Branch({<<>>, GpuAttemptsProgram(1)}),
      Drop("graph_data"), Drop("node_map"), Sleep,
      Write("node_positions_cache"), Drop("node_positions_cache")>>

\* get_node_positions: the cache is read; on a miss the graph is read and
\* the cache written
GetNodePositionsProgram ==
    <<Read("node_positions_cache"), Drop("node_positions_cache"),
      Branch({<<>>, <<Read("graph_data"), Drop("graph_data"),
                      Write("node_positions_cache"), Drop("node_positions_cache")>>})>>

\* one iteration of the broadcast loop; its sleep(100ms) is the time the
\* task stays idle before the next
BroadcastProgram == GetNodePositionsProgram

\* should_rate_limit: last_update is read and, unless the update is limited,
\* written
ShouldRateLimitProgram ==
    <<Read("last_update"), Drop("last_update"),
      Branch({<<>>, <<Write("last_update"), Drop("last_update")>>})>>

\* the for loop of update_node_positions with up to `updates` updates left
RECURSIVE UpdateLoopProgram(_)
UpdateLoopProgram(updates) ==
    IF updates = 0
      THEN <<>>
      ELSE <<Branch({<<>>, ShouldRateLimitProgram \o UpdateLoopProgram(updates - 1)})>>

\* update_node_positions taking its guards in the other order
UpdateGuardsReversed == <<Write("node_map"), Write("graph_data")>>

\* let mut graph = self.graph_data.write().await;
\* let mut node_map = self.node_map.write().await;
UpdateGuards == <<Write("graph_data"), Write("node_map")>>

\* update_node_positions; the guards drop in reverse order of declaration
UpdateNodePositionsProgram ==
    UpdateGuards \o UpdateLoopProgram(MaxUpdates) \o <<Drop("node_map"), Drop("graph_data")>>

\* clear_position_cache
ClearPositionCacheProgram ==
    <<Write("node_positions_cache"), Drop("node_positions_cache")>>

\* test_gpu_at_startup: gpu.read().await.test_compute(); its sleep(1000ms)
\* is the time the task stays idle before it
TestGpuAtStartupProgram == <<Read("gpu_compute"), Drop("gpu_compute")>>

ProgramOf(task) ==
    CASE task = "loop" -> LoopProgram
      [] task = "broadcast" -> BroadcastProgram
      [] task = "update" -> UpdateNodePositionsProgram
      [] task = "reader" -> GetNodePositionsProgram
      [] task = "clear" -> ClearPositionCacheProgram
      [] task = "gpu_test" -> TestGpuAtStartupProgram

\* the ways on from a program: a branch at its head is decided
RECURSIVE Resolve(_)
Resolve(program) ==
    IF program # <<>> /\ Head(program)[1] = "branch"
      THEN UNION {Resolve(way \o Tail(program)) : way \in Head(program)[2]}
      ELSE {program}

\* the operation the task is at
Op(task) == Head(lock_state.todo[task])

Active(task) == lock_state.todo[task] # <<>>

\* the task has asked for the lock and has not been granted it
Waiting(task, lock) ==
    \E n \in 1..Len(lock_state.queue[lock]) : lock_state.queue[lock][n][1] = task

Holds(task, lock) == \E h \in lock_state.holders[lock] : h[1] = task

\* a write guard needs the lock free, a read guard needs it free of writers
Compatible(lock, mode) ==
    IF mode = "write"
      THEN lock_state.holders[lock] = {}
      ELSE \A h \in lock_state.holders[lock] : h[2] = "read"

LockFrame ==
    UNCHANGED <<lifecycle_vars, build_vars, graph_vars, update_call, tick_vars, diagnostics,
                settings, broadcast_loop, page_call>>

\* the call is made, or the loop's next iteration starts
TaskBegin(task) ==
    /\ ~Active(task)
    /\ \E todo \in Resolve(ProgramOf(task)) :
          lock_state' = [lock_state EXCEPT !.todo[task] = todo]
    /\ LockFrame

\* lock.read().await or lock.write().await is polled: the guard is returned
\* at once when nobody waits and the lock allows it, else the request is queued
TaskRequest(task) ==
    /\ Active(task)
    /\ Op(task)[1] \in {"read", "write"}
    /\ ~Waiting(task, Op(task)[2])
    /\ IF lock_state.queue[Op(task)[2]] = <<>> /\ Compatible(Op(task)[2], Op(task)[1])
         THEN \E todo \in Resolve(Tail(lock_state.todo[task])) :
                 lock_state' = [lock_state EXCEPT
                                  !.holders[Op(task)[2]] = @ \cup {<<task, Op(task)[1]>>},
                                  !.todo[task] = todo]
         ELSE lock_state' = [lock_state EXCEPT
                               !.queue[Op(task)[2]] = Append(@, <<task, Op(task)[1]>>)]
    /\ LockFrame

\* the request at the head of the queue is granted when the lock allows it
TaskGrant(task) ==
    /\ Active(task)
    /\ Op(task)[1] \in {"read", "write"}
    /\ lock_state.queue[Op(task)[2]] # <<>>
    /\ Head(lock_state.queue[Op(task)[2]]) = <<task, Op(task)[1]>>
    /\ Compatible(Op(task)[2], Op(task)[1])
    /\ \E todo \in Resolve(Tail(lock_state.todo[task])) :
          lock_state' = [lock_state EXCEPT
                           !.queue[Op(task)[2]] = Tail(@),
                           !.holders[Op(task)[2]] = @ \cup {<<task, Op(task)[1]>>},
                           !.todo[task] = todo]
    /\ LockFrame

\* the guard is dropped
TaskDrop(task) ==
    /\ Active(task)
    /\ Op(task)[1] = "drop"
    /\ \E todo \in Resolve(Tail(lock_state.todo[task])) :
          lock_state' = [lock_state EXCEPT
                           !.holders[Op(task)[2]] = {h \in @ : h[1] # task},
                           !.todo[task] = todo]
    /\ LockFrame

\* tokio::time::sleep(..).await is over
TaskSleep(task) ==
    /\ Active(task)
    /\ Op(task)[1] = "sleep"
    /\ \E todo \in Resolve(Tail(lock_state.todo[task])) :
          lock_state' = [lock_state EXCEPT !.todo[task] = todo]
    /\ LockFrame

\* a step of a call that has been made
TaskStep(task) ==
    \/ TaskRequest(task)
    \/ TaskGrant(task)
    \/ TaskDrop(task)
    \/ TaskSleep(task)

NextLocks ==
    \E task \in LockTasks :
        \/ TaskBegin(task)
        \/ TaskRequest(task)
        \/ TaskGrant(task)
        \/ TaskDrop(task)
        \/ TaskSleep(task)

SpecLocks == InitCache /\ [][NextLocks]_vars

\* every task that has been started is scheduled again and again
SpecLocksFair ==
    SpecLocks /\ \A task \in LockTasks : WF_vars(TaskStep(task))

(***************************************************************************)
(* Claims about the lifecycle.                                             *)
(***************************************************************************)
LoopActive(i) == loop_pc[i] \notin {"none", "exited"}

\* C1: at most one simulation loop is active at any instant: never two
\* instances whose loop tasks are both started and not yet exited.
C1_AtMostOneLoopActive ==
    \A i, j \in Instances : (LoopActive(i) /\ LoopActive(j)) => i = j

\* C2: when GraphService::new completes for instance B (it is about to drop
\* the lifecycle guard and return) while another instance was the active one,
\* the globally active id is B's and the global running flag is true.
C2_NewMakesActiveAndRunning ==
    \A i \in Instances :
        (new_pc[i] = "release" /\ \E j \in Instances : j # i /\ new_pc[j] = "returned")
            => (SIMULATION_MUTEX.value = i /\ SIMULATION_LOOP_RUNNING)

\* C3: shutdown() on an instance whose id differs from the globally active id
\* is refused as a no-op: the step that compares the ids returns at once
\* without polling, and leaves the instance's shutdown-request flag, the
\* global running flag and the globally active id as they were.
C3_SupersededShutdownRefused ==
    [][\A i \in Instances :
         (shutdown_pc[i] = "compare" /\ SIMULATION_MUTEX.value # i
            /\ shutdown_pc'[i] # "compare")
         => /\ shutdown_pc'[i] = "idle"
            /\ shutdown_outcome'[i] = "refused"
            /\ SIMULATION_MUTEX'.holder = Free
            /\ attempt'[i] = attempt[i]
            /\ shutdown_requested' = shutdown_requested
            /\ shutdown_complete' = shutdown_complete
            /\ SIMULATION_LOOP_RUNNING' = SIMULATION_LOOP_RUNNING
            /\ SIMULATION_MUTEX'.value = SIMULATION_MUTEX.value]_vars

\* a superseded instance's shutdown() has been refused, its request flag unset
C3_Witness ==
    \E i \in Instances :
        /\ shutdown_outcome[i] = "refused"
        /\ SIMULATION_MUTEX.value # i
        /\ ~shutdown_requested[i]
        /\ LoopActive(i)

\* C4: shutdown() of the globally active instance, whose loop was running
\* when it was called, succeeds within the timeout under every interleaving
\* with the loop task: a poll made once the loop task has exited finds the
\* running flag cleared and the shutdown-complete flag set and returns
\* success, so no such call polls on to the limit.
C4_ActiveShutdownSucceeds ==
    [][\A i \in Instances :
         (shutdown_pc[i] = "poll" /\ loop_was_running[i] /\ loop_pc[i] = "exited"
            /\ <<shutdown_pc[i], attempt[i]>> # <<shutdown_pc'[i], attempt'[i]>>)
         => shutdown_outcome'[i] = "stopped"]_vars

\* C5: whenever a simulation loop task exits, whatever the value of the
\* global running flag at that moment, its cleanup leaves the global running
\* flag reset and that instance's shutdown-complete flag set.
C5_LoopExitCleanup ==
    [][\A i \in Instances :
         (loop_pc[i] # "exited" /\ loop_pc'[i] = "exited")
         => (~SIMULATION_LOOP_RUNNING' /\ shutdown_complete'[i])]_vars

(***************************************************************************)
(* Claims about the graph builder.                                         *)
(***************************************************************************)
Building == {b \in Builders : build_pc[b] = "building"}

Built == \E b \in Builders : build_result[b] = "ok"

\* C6: at most one build_graph_from_metadata call is building at any
\* instant; a call that starts while another is building returns the
\* 'already in progress' error in that very step, without waiting and
\* without touching the flag or the graph, and the call that is building
\* completes with the full graph (one node per candidate identifier).
C6_BuildMutualExclusion ==
    /\ [](Cardinality(Building) <= 1 /\ (GRAPH_REBUILD_IN_PROGRESS <=> Building # {}))
    /\ [][\A b \in Builders :
            /\ (build_pc[b] = "idle" /\ build_pc'[b] # "idle")
                 => IF Building # {}
                      THEN /\ build_pc'[b] = "returned"
                           /\ build_result'[b] = "already in progress"
                           /\ GRAPH_REBUILD_IN_PROGRESS'
                           /\ built_graph' = built_graph
                           /\ Building' = Building
                      ELSE build_pc'[b] = "building"
            /\ (build_pc[b] = "building" /\ build_pc'[b] # "building")
                 => /\ build_result'[b] = "ok"
                    /\ Len(built_graph'.nodes) = Cardinality(ValidNodes(metadata))]_vars

\* of two overlapping calls one has completed with a graph, the other was rejected
C6_Witness ==
    \E b, c \in Builders :
        /\ build_result[b] = "ok"
        /\ build_result[c] = "already in progress"
        /\ Len(built_graph.nodes) >= 2

\* the numeric id of the node a file name resolves to; 0 when it resolves to none
NodeIdOf(graph, file_name) ==
    LET found == {n \in 1..Len(graph.nodes) :
                     graph.nodes[n].metadata_id = TrimEndMatches(file_name)}
    IN  IF found = {} THEN 0 ELSE graph.nodes[CHOOSE n \in found : TRUE].id

\* the co-occurrence entries listed between the nodes with ids a and b
EntriesBetween(graph, md, a, b) ==
    {e \in TopicEntries(md) :
        {NodeIdOf(graph, e[1]), NodeIdOf(graph, e[2])} = {a, b}}

RECURSIVE SumOfCounts(_, _)
SumOfCounts(md, entries) ==
    IF entries = {}
      THEN 0
      ELSE LET e == CHOOSE x \in entries : TRUE
           IN  md[e[1]].topic_counts[e[2]] + SumOfCounts(md, entries \ {e})

NodeIds(graph) == {graph.nodes[n].id : n \in 1..Len(graph.nodes)}

\* C7: for any two distinct nodes a and b the built graph holds at most one
\* edge for the unordered pair {a,b} (exactly one when a count is listed
\* between them); it has source = min(id_a,id_b), target = max(id_a,id_b) and
\* as weight the sum of all counts listed between them in either direction.
C7_EdgeCanonicalization ==
    Built =>
      \A a, b \in NodeIds(built_graph) :
        a # b =>
          LET between == {e \in built_graph.edges : {e.source, e.target} = {a, b}}
              listed  == EntriesBetween(built_graph, metadata, a, b)
          IN  /\ Cardinality(between) <= 1
              /\ (between # {}) <=> (listed # {})
              /\ \A e \in between :
                    /\ e.source < e.target
                    /\ e.source \in {a, b} /\ e.target \in {a, b}
                    /\ e.weight = SumOfCounts(metadata, listed)

\* counts (a,b)=3 and (b,a)=2 have yielded the one edge of weight 5
C7_Witness ==
    /\ Built
    /\ <<"a", ".md">> \in DOMAIN metadata /\ <<"b", ".md">> \in DOMAIN metadata
    /\ <<"a">> \notin DOMAIN metadata
    /\ DOMAIN metadata[<<"a", ".md">>].topic_counts = {<<"b", ".md">>}
    /\ metadata[<<"a", ".md">>].topic_counts[<<"b", ".md">>] = 3
    /\ DOMAIN metadata[<<"b", ".md">>].topic_counts = {<<"a", ".md">>}
    /\ metadata[<<"b", ".md">>].topic_counts[<<"a", ".md">>] = 2
    /\ \E e \in built_graph.edges : e.weight = 5 /\ built_graph.edges = {e}

\* C8: no built graph contains an edge whose source equals its target, even
\* when a record lists a count with its own file or with another key that
\* resolves to the same node.
C8_NoSelfLoops ==
    \A e \in built_graph.edges : e.source # e.target

\* a graph was built from records listing a count with their own file and
\* with another key of the same node
C8_Witness ==
    /\ Built
    /\ \E e \in TopicEntries(metadata) : e[1] = e[2]
    /\ \E e \in TopicEntries(metadata) :
          /\ e[1] # e[2]
          /\ e[2] \in DOMAIN metadata
          /\ TrimEndMatches(e[1]) = TrimEndMatches(e[2])

(***************************************************************************)
(* Claims about the position cache.                                        *)
(***************************************************************************)
\* a step in which a get_node_positions call returns, the call before it
\* having returned from the same instance with no tick and no clear since,
\* and the returning call having started after that return
SecondOfTwoReads ==
    /\ last_read'.quiet
    /\ last_read' # last_read
    /\ last_read.inst # NoId
    /\ last_read'.inst = last_read.inst
    /\ last_read.quiet
    /\ \A r \in Readers :
          (read_pc[r] = "store" /\ read_pc'[r] = "idle") => read_sequential[r]

\* C9: two get_node_positions reads, one after the other, that start less
\* than the TTL (50 ms) apart, with no tick and no clear of the cache between
\* them, return identical snapshots.
C9_ReadsWithinTtlIdentical ==
    [][(SecondOfTwoReads
          /\ last_read'.start - last_read.start < NODE_POSITION_CACHE_TTL_MS)
         => last_read'.nodes = last_read.nodes]_vars

\* C9: two get_node_positions reads, one after the other, with no tick and no
\* clear of the cache between them, return identical snapshots when the
\* second starts less than the TTL (50 ms) after the timestamp of the cache
\* entry the first one returned or stored, whatever update_node_positions has
\* done to the graph in between.
C9_ReadsWithinEntryTtlIdentical ==
    [][(SecondOfTwoReads
          /\ node_positions_cache[last_read.inst].some
          /\ DurationSince(last_read'.start,
                           node_positions_cache[last_read.inst].timestamp)
                < NODE_POSITION_CACHE_TTL_MS)
         => last_read'.nodes = last_read.nodes]_vars

\* a read has returned an entry stored by an earlier read, with no tick or
\* clear since, although update_node_positions has moved a node meanwhile
C9_Witness ==
    /\ last_read.inst # NoId
    /\ last_read.quiet
    /\ node_positions_cache[last_read.inst].some
    /\ last_read.start > node_positions_cache[last_read.inst].timestamp
    /\ last_read.nodes = node_positions_cache[last_read.inst].nodes
    /\ last_read.nodes # graph_data[last_read.inst].nodes

\* C10: a get_node_positions read that starts after a tick has written new
\* positions and released the graph lock, or after clear_position_cache has
\* returned, never returns a snapshot captured before that tick or clear.
C10_ReadAfterTickOrClearIsNew == ~last_read.stale

(***************************************************************************)
(* Claims about the rate limiter.                                          *)
(***************************************************************************)
\* a step in which the rate limiter answers for one more update of the batch
UpdateAnswered ==
    /\ update_call.pc = "running"
    /\ Len(update_call'.accepted) = Len(update_call.accepted) + 1

\* the answer of such a step
UpdateAccepted == update_call'.accepted[Len(update_call'.accepted)]

\* C11: an update is accepted only if the time elapsed since the last
\* accepted update exceeds the minimum interval (16 ms), and each acceptance
\* advances the last-accepted timestamp to the time of the acceptance (so
\* that only interval-spaced updates are applied, also inside one batch).
C11_AcceptedOnlyBeyondInterval ==
    [][(UpdateAnswered /\ UpdateAccepted)
         => /\ now - last_update[update_call.inst] > UPDATE_RATE_LIMIT_MS
            /\ last_update'[update_call.inst] = now]_vars

\* C11: an update is accepted only if the time elapsed since the last
\* accepted update is at least the minimum interval (16 ms), and each
\* acceptance advances the last-accepted timestamp to the time of the
\* acceptance (so that only interval-spaced updates are applied, also inside
\* one batch).
C11_AcceptedOnlyFromInterval ==
    [][(UpdateAnswered /\ UpdateAccepted)
         => /\ now - last_update[update_call.inst] >= UPDATE_RATE_LIMIT_MS
            /\ last_update'[update_call.inst] = now]_vars

\* a batch of two was submitted exactly one interval after the last
\* acceptance: its first update was accepted, its second dropped
C11_Witness ==
    /\ update_call.pc = "returned"
    /\ update_call.accepted = <<TRUE, FALSE>>
    /\ last_update[update_call.inst] - update_call.before[3] = UPDATE_RATE_LIMIT_MS

\* C12: an update_node_positions call in which the rate limiter rejects
\* every update leaves the graph's node sequence, the node map and the
\* last-accepted timestamp as it found them (graph and node map agreeing
\* before the call, as the ticks and the accepted updates leave them).
C12_RejectedUpdatesChangeNothing ==
    [][(/\ update_call.pc = "running"
        /\ update_call'.pc = "returned"
        /\ \A k \in DOMAIN update_call.accepted : ~update_call.accepted[k])
         => update_call.before = <<graph_data'[update_call.inst].nodes,
                                   node_map'[update_call.inst],
                                   last_update'[update_call.inst]>>]_vars

\* a batch of two updates has been rejected whole, one of them naming a node
\* of the graph and a position the node does not have
C12_Witness ==
    /\ update_call.pc = "returned"
    /\ update_call.accepted = <<FALSE, FALSE>>
    /\ \E k \in DOMAIN update_call.updates :
          \E n \in DOMAIN graph_data[update_call.inst].nodes :
             /\ graph_data[update_call.inst].nodes[n].id = update_call.updates[k][1]
             /\ graph_data[update_call.inst].nodes[n].data.position
                   # update_call.updates[k][2].data.position

(***************************************************************************)
(* Claims about the physics step.                                          *)
(***************************************************************************)
\* the instance's latest physics step has left calculate_layout_with_retry
Computed(i) == tick[i].pc \in {"finished", "idle"} /\ tick[i].gpu_calls > 0

\* no GPU attempt of it succeeded
EveryAttemptFailed(i) == ~(tick[i].result = Ok /\ tick[i].cpu_calls = 0)

\* C13: when the GPU path fails on every attempt, calculate_layout_with_retry
\* makes exactly MAX_GPU_CALCULATION_RETRIES (3) GPU attempts, sleeps between
\* consecutive attempts 500 ms * 2^attempt (500 ms, then 1000 ms), and then
\* runs the CPU fallback exactly once.
C13_ThreeAttemptsDoublingDelaysOneFallback ==
    \A i \in Instances :
        (Computed(i) /\ EveryAttemptFailed(i))
           => /\ tick[i].gpu_calls = 3
              /\ tick[i].delays = <<500, 1000>>
              /\ tick[i].cpu_calls = 1

\* three GPU attempts have failed and the fallback has run
C13_Witness ==
    \E i \in Instances :
        /\ tick[i].pc = "finished"
        /\ tick[i].gpu_calls = 3
        /\ tick[i].last_error = GpuError(2)
        /\ tick[i].delays = <<500, 1000>>
        /\ tick[i].cpu_calls = 1

\* C14: if every GPU attempt fails and the CPU fallback fails too, the error
\* calculate_layout_with_retry returns is that of the last GPU attempt, not
\* the CPU's.
C14_LastGpuErrorSurfaced ==
    \A i \in Instances :
        (Computed(i) /\ EveryAttemptFailed(i) /\ tick[i].result # Ok)
           => /\ tick[i].result = GpuError(MAX_GPU_CALCULATION_RETRIES - 1)
              /\ tick[i].result # CpuError

\* the fallback has failed after three failed attempts
C14_Witness ==
    \E i \in Instances :
        /\ tick[i].pc = "finished"
        /\ tick[i].gpu_calls = 3
        /\ tick[i].cpu_calls = 1
        /\ tick[i].result = <<"gpu error", 2>>

\* C15: an error returned by a tick's layout computation never terminates
\* the loop: the step that ends the tick leads on to the sleep and the next
\* iteration, and the loop exits only at its check of its own instance's
\* shutdown-request flag, with the flag set.
C15_ErrorsNeverEndLoop ==
    [][\A i \in Instances :
         /\ (loop_pc[i] = "tick" /\ loop_pc'[i] # "tick") => loop_pc'[i] = "sleep"
         /\ (loop_pc[i] # "exited" /\ loop_pc'[i] = "exited")
               => (loop_pc[i] = "check" /\ shutdown_requested[i])]_vars

\* the loop has begun its next iteration after a tick whose computation
\* returned an error
C15_Witness ==
    \E i \in Instances :
        /\ loop_pc[i] = "acquire"
        /\ tick[i].pc = "idle"
        /\ tick[i].result \in {GpuError(2), CpuError}

\* C16: with physics enabled, every tick of a running loop ends with the
\* node positions being broadcast, whether the accelerator works, is absent
\* (CPU path) or fails on every attempt (CPU fallback).
C16_EveryTickBroadcasts ==
    [][\A i \in Instances :
         (tick[i].pc = "finished" /\ tick'[i].pc = "idle" /\ physics_enabled[i])
            => tick'[i].broadcast]_vars

\* a tick whose GPU attempts all failed has ended with the broadcast
C16_Witness ==
    \E i \in Instances :
        /\ tick[i].pc = "idle"
        /\ tick[i].gpu_calls = 3
        /\ tick[i].cpu_calls = 1
        /\ tick[i].broadcast

(***************************************************************************)
(* Claims about the nodes and edges build_graph_from_metadata creates      *)
(***************************************************************************)
\* the record the node loop copies from for a node: the one under "<metadata_id>.md"
RecordKey(node) == Append(node.metadata_id, ".md")

\* C17: for every record carrying a stored id that parses as an unsigned
\* integer, the node built for that record has exactly that id; a fresh id
\* is allocated only when the record carries no parseable id.
C17_StoredIdReused ==
    \A n \in 1..Len(built_graph.nodes) :
        LET node == built_graph.nodes[n]
        IN  /\ RecordKey(node) \in DOMAIN built_graph.metadata
            /\ ParseU32(built_graph.metadata[RecordKey(node)].node_id).some
            => node.id = ParseU32(built_graph.metadata[RecordKey(node)].node_id).value

\* the entry's target (or source) names no node of the graph
Unresolved(graph, entry) ==
    \/ FindNode(graph.nodes, TrimEndMatches(entry[1])) = 0
    \/ FindNode(graph.nodes, TrimEndMatches(entry[2])) = 0

\* the id pairs of the entries that resolve to two different nodes
ResolvedPairs(graph) ==
    {EdgeKey(graph.nodes[FindNode(graph.nodes, TrimEndMatches(entry[1]))].id,
             graph.nodes[FindNode(graph.nodes, TrimEndMatches(entry[2]))].id) :
       entry \in {e \in TopicEntries(graph.metadata) :
                    /\ ~Unresolved(graph, e)
                    /\ FindNode(graph.nodes, TrimEndMatches(e[1]))
                         # FindNode(graph.nodes, TrimEndMatches(e[2]))}}

\* C18: in every graph the build returns, both endpoints of every edge are
\* ids of nodes of that graph, and an entry whose source or target does not
\* resolve to a node creates no edge: the edges join exactly the pairs of
\* the entries that resolve.
C18_EdgeEndpointsAreNodes ==
    /\ \A e \in built_graph.edges :
          e.source \in NodeIds(built_graph) /\ e.target \in NodeIds(built_graph)
    /\ {<<e.source, e.target>> : e \in built_graph.edges} = ResolvedPairs(built_graph)

\* a build returned a graph with an edge although one entry of the store
\* names a file that has no node
C18_Witness ==
    /\ \E b \in Builders : build_result[b] = "ok"
    /\ built_graph.edges # {}
    /\ \E entry \in TopicEntries(built_graph.metadata) : Unresolved(built_graph, entry)

\* the node's metadata mapping carries the six fields of the record
CarriesRecord(node, record) ==
    /\ {"fileName", "fileSize", "nodeSize", "hyperlinkCount", "sha1", "lastModified"}
          \subseteq DOMAIN node.metadata
    /\ node.metadata["fileName"] = record.file_name
    /\ node.metadata["fileSize"] = to_string(record.file_size)
    /\ node.metadata["nodeSize"] = to_string(record.node_size)
    /\ node.metadata["hyperlinkCount"] = to_string(record.hyperlink_count)
    /\ node.metadata["sha1"] = record.sha1
    /\ node.metadata["lastModified"] = record.last_modified

\* C20: the build creates exactly one node per distinct candidate identifier
\* (a metadata key without its ".md" suffix), with that identifier as its
\* metadata_id; every node has flags = 1 and a metadata mapping that carries
\* fileName, fileSize, nodeSize, hyperlinkCount, sha1 and lastModified of a
\* record it was derived from.
C20_OneActiveNodePerKeyWithMetadata ==
    /\ \A node_id \in ValidNodes(built_graph.metadata) :
          Cardinality({n \in 1..Len(built_graph.nodes) :
                         built_graph.nodes[n].metadata_id = node_id}) = 1
    /\ \A n \in 1..Len(built_graph.nodes) :
          /\ built_graph.nodes[n].metadata_id \in ValidNodes(built_graph.metadata)
          /\ built_graph.nodes[n].flags = 1
          /\ \E file_name \in DOMAIN built_graph.metadata :
                /\ TrimEndMatches(file_name) = built_graph.nodes[n].metadata_id
                /\ CarriesRecord(built_graph.nodes[n], built_graph.metadata[file_name])

(***************************************************************************)
(* Claims about get_simulation_diagnostics                                 *)
(***************************************************************************)
\* C19: get_simulation_diagnostics never blocks on the lifecycle section: a
\* call can always proceed on a constructed instance, whoever holds the
\* section; if the section was held at the call, the active id is reported as
\* unavailable; otherwise the globally active id is reported, and the
\* instance is reported active exactly when that id is its own.
C19_DiagnosticsNeverBlocks ==
    /\ \A i \in Instances :
          new_pc[i] = "returned" /\ diagnostics.pc # "loads"
            => ENABLED DiagnosticsTryLock(i)
    /\ diagnostics.pc = "loads" => ENABLED DiagnosticsFormat(diagnostics.inst)
    /\ diagnostics.pc # "none" =>
          IF diagnostics.holder # Free
            THEN diagnostics.current_id = Unavailable
            ELSE /\ diagnostics.current_id = diagnostics.value
                 /\ diagnostics.is_active = (diagnostics.value = diagnostics.inst)

\* a call made while a shutdown() of the other instance held the section
\* returned and reported the id as unavailable
C19_Witness ==
    /\ diagnostics.pc = "returned"
    /\ diagnostics.holder[1] = "shutdown"
    /\ diagnostics.holder[2] # diagnostics.inst
    /\ diagnostics.current_id = Unavailable

(***************************************************************************)
(* Claims about shutdown() and the lifecycle section                       *)
(***************************************************************************)
\* C22: in shutdown() of the active instance the lifecycle section is
\* released after the shutdown flag is set and before polling begins: while
\* a shutdown() polls, it does not hold SIMULATION_MUTEX, so a concurrent
\* new() or get_simulation_diagnostics can acquire it.
C22_SectionReleasedBeforePolling ==
    \A i \in Instances :
        shutdown_pc[i] = "poll" =>
            /\ SIMULATION_MUTEX.holder # <<"shutdown", i>>
            /\ \A j \in Instances : new_pc[j] = "unborn" => ENABLED NewLock(j)

(***************************************************************************)
(* Claims about the locks the simulation loop holds                        *)
(***************************************************************************)
\* the loop task holds the write guards `graph` and `node_map`
LoopHoldsLocks(i) == loop_pc[i] = "tick"

\* the loop task is in one of its tokio::time::sleep calls: the 16 ms of the
\* iteration, or the back-off after a failed GPU attempt
LoopSleeping(i) == loop_pc[i] = "sleep" \/ tick[i].pc = "backoff"

\* C23: the simulation loop never sleeps while holding the graph lock or
\* the node-map lock, the back-off delays between failed GPU attempts
\* included.
C23_NoSleepUnderLocks ==
    \A i \in Instances : ~(LoopHoldsLocks(i) /\ LoopSleeping(i))

(***************************************************************************)
(* Claims about the lock protocol                                          *)
(***************************************************************************)
\* the task is at a lock.read().await or lock.write().await of that lock
Wanting(task, lock) ==
    Active(task) /\ Op(task)[1] \in {"read", "write"} /\ Op(task)[2] = lock

\* whoever asks for the node map holds the graph, and whoever asks for the
\* graph holds neither the node map nor the accelerator nor the cache
LockOrder ==
    \A task \in LockTasks :
        /\ Wanting(task, "node_map") => Holds(task, "graph_data")
        /\ Wanting(task, "graph_data") =>
              /\ ~Holds(task, "node_map")
              /\ ~Holds(task, "gpu_compute")
              /\ ~Holds(task, "node_positions_cache")

\* C24: no interleaving of the simulation loop, the broadcast loop,
\* update_node_positions, get_node_positions, clear_position_cache and the
\* GPU startup test deadlocks: the graph lock is taken before the node-map
\* lock, no task waits for the graph lock while holding the node-map,
\* accelerator or cache lock, and under fair scheduling every lock request
\* is eventually granted: no task stays in a lock's queue forever (a task
\* leaves the queue only by being handed the guard).
C24_NoDeadlock ==
    /\ []LockOrder
    /\ \A task \in LockTasks, lock \in Locks : []<>~Waiting(task, lock)

\* update_node_positions waits for the graph lock, which the loop holds
\* together with the node map while it waits for the accelerator, which the
\* startup test is reading
C24_Witness ==
    /\ Waiting("update", "graph_data")
    /\ Holds("loop", "graph_data") /\ Holds("loop", "node_map")
    /\ Waiting("loop", "gpu_compute")
    /\ Holds("gpu_test", "gpu_compute")

(***************************************************************************)
(* Claims about the order of a tick's write and its broadcast              *)
(***************************************************************************)
\* C25: within one tick the write-back to the graph happens before the
\* broadcast: a tick that has broadcast had written its results to the
\* graph's nodes first, and what it sent is the node state that same tick
\* wrote.
C25_WriteBeforeBroadcast ==
    \A i \in Instances :
        tick[i].broadcast =>
            /\ tick[i].wrote
            /\ tick[i].sent = PositionsToEncode(tick[i].written)

\* a tick whose second GPU attempt succeeded and moved the node has
\* broadcast the new position
C25_Witness ==
    \E i \in Instances :
        /\ tick[i].pc = "idle"
        /\ tick[i].broadcast
        /\ tick[i].gpu_calls = 2
        /\ tick[i].written # <<>>
        /\ tick[i].written[1].data.position # 0
        /\ tick[i].sent[1][2].position = tick[i].written[1].data.position

(***************************************************************************)
(* Claims about the loop's cancellation                                    *)
(***************************************************************************)
\* C26: cancellation of the simulation loop is cooperative: the loop leaves
\* only at the check at the top of an iteration, with the flag set, so a
\* tick in flight when the flag is set runs to completion; and once the
\* flag is set the loop starts at most one more tick before it exits.
C26_CooperativeCancellation ==
    /\ [][\A i \in Instances :
            (loop_pc[i] # "exited" /\ loop_pc'[i] = "exited")
               => loop_pc[i] = "check" /\ shutdown_requested[i]]_vars
    /\ [](\A i \in Instances : tick[i].after_request <= 1)

\* the flag was set while a tick was in flight; that tick made its three
\* GPU attempts and the fallback, broadcast, and the loop then exited
C26_Witness ==
    \E i \in Instances :
        /\ loop_pc[i] = "exited"
        /\ tick[i].after_request = 1
        /\ tick[i].gpu_calls = 3
        /\ tick[i].broadcast

(***************************************************************************)
(* Claims about the end of shutdown()                                      *)
(***************************************************************************)
\* a step of a shutdown() call that holds the lifecycle section
ShutdownStep(i) ==
    \/ ShutdownCompare(i)
    \/ ShutdownResetComplete(i)
    \/ ShutdownPoll(i)

\* C27: shutdown() always returns: a call that has the section is never
\* blocked; every poll either returns or is one more of at most
\* SHUTDOWN_TIMEOUT_MS / 50 = 100 polls; and the return by timeout comes
\* after the 100th poll, raises nothing and leaves the running flag, the
\* active id, both shutdown flags and the loop as they are.
C27_ShutdownAlwaysReturns ==
    /\ [](\A i \in Instances :
            /\ shutdown_pc[i] # "idle" => ENABLED ShutdownStep(i)
            /\ attempt[i] <= SHUTDOWN_TIMEOUT_MS \div 50 - 1)
    /\ [][\A i \in Instances :
            /\ (shutdown_pc[i] = "poll" /\ <<shutdown_pc[i], attempt[i]>>' # <<shutdown_pc[i], attempt[i]>>)
                  => \/ shutdown_pc'[i] = "idle"
                     \/ shutdown_pc'[i] = "poll" /\ attempt'[i] = attempt[i] + 1
            /\ (shutdown_pc[i] = "poll" /\ shutdown_pc'[i] = "idle"
                  /\ shutdown_outcome'[i] = "timeout")
                  => /\ attempt[i] = SHUTDOWN_TIMEOUT_MS \div 50 - 1
                     /\ SIMULATION_LOOP_RUNNING' = SIMULATION_LOOP_RUNNING
                     /\ SIMULATION_MUTEX'.value = SIMULATION_MUTEX.value
                     /\ shutdown_requested' = shutdown_requested
                     /\ shutdown_complete' = shutdown_complete
                     /\ loop_pc' = loop_pc]_vars

\* a shutdown() of the active instance returned by timeout while its loop
\* was still running
C27_Witness ==
    \E i \in Instances :
        /\ shutdown_outcome[i] = "timeout"
        /\ shutdown_pc[i] = "idle"
        /\ loop_pc[i] \notin {"none", "exited"}
        /\ SIMULATION_LOOP_RUNNING

\* a step of get_node_positions that returns without leaving its first part:
\* the return from the cache
ReturnsFromCache ==
    /\ read_pc' = read_pc
    /\ last_read'.quiet
    /\ last_read' # last_read \/ read_sequential' # read_sequential

\* C28: get_node_positions returns the cached snapshot only when an entry
\* exists and its age at the call's start is under NODE_POSITION_CACHE_TTL_MS,
\* and then neither reads the graph nor changes the cache; otherwise it goes
\* on to read the live graph, stores that snapshot with the call's start
\* time and returns it
C28_CacheOnlyWhenFresh ==
    [][/\ ReturnsFromCache =>
            LET entry == node_positions_cache[last_read'.inst] IN
            /\ entry.some
            /\ now - entry.timestamp < NODE_POSITION_CACHE_TTL_MS
            /\ last_read'.nodes = entry.nodes
            /\ last_read'.start = now
            /\ UNCHANGED <<node_positions_cache, graph_data, read_nodes>>
       /\ \A r \in Readers :
            /\ (read_pc[r] = "idle" /\ read_pc'[r] = "fetch") =>
                  LET entry == node_positions_cache[read_inst'[r]] IN
                  /\ ~entry.some \/ now - entry.timestamp >= NODE_POSITION_CACHE_TTL_MS
                  /\ read_start'[r] = now
                  /\ UNCHANGED <<node_positions_cache, last_read>>
            /\ (read_pc[r] = "fetch" /\ read_pc'[r] = "store") =>
                  /\ read_nodes'[r] = graph_data[read_inst[r]].nodes
                  /\ UNCHANGED <<node_positions_cache, last_read>>
            /\ (read_pc[r] = "store" /\ read_pc'[r] = "idle") =>
                  /\ node_positions_cache'[read_inst[r]] =
                        Some(read_nodes[r], read_start[r])
                  /\ last_read'.nodes = read_nodes[r]
                  /\ last_read'.inst = read_inst[r]]_vars

\* a read has returned an entry stored by an earlier call, younger than the
\* TTL, while the graph already holds other positions
C28_Witness ==
    /\ last_read.inst # NoId
    /\ last_read.quiet
    /\ LET entry == node_positions_cache[last_read.inst] IN
          /\ entry.some
          /\ last_read.start > entry.timestamp
          /\ last_read.start - entry.timestamp < NODE_POSITION_CACHE_TTL_MS
          /\ last_read.nodes = entry.nodes
          /\ last_read.nodes # graph_data[last_read.inst].nodes

(***************************************************************************)
(* The node sequence and the node map under ticks and updates whose data   *)
(* differ in position, velocity, mass and flags: a graph of two nodes, and *)
(* a map that holds both, or one of them, or one of them and a third.      *)
(***************************************************************************)
AgreeingNodes ==
    <<[id |-> 1, data |-> [position |-> 0, velocity |-> 0, mass |-> 10, flags |-> 1],
       metadata |-> BuiltMetadata],
      [id |-> 2, data |-> [position |-> 1, velocity |-> 1, mass |-> 20, flags |-> 0],
       metadata |-> BuiltMetadata]>>

AgreeingMaps ==
    {[node_id \in ids |-> IF node_id \in 1..Len(AgreeingNodes)
                            THEN AgreeingNodes[node_id]
                            ELSE [id |-> node_id, data |-> AgreeingNodes[1].data,
                                  metadata |-> BuiltMetadata]] :
       ids \in {{1, 2}, {1}, {2, 3}}}

InitSync ==
    /\ \E map \in AgreeingMaps : InitRunningWith(AgreeingNodes, map)
    /\ gpu_compute \in {f \in [Instances -> BOOLEAN] : \A i \in Instances : i # 1 => ~f[i]}
    /\ physics_enabled = [i \in Instances |-> TRUE]
    /\ cpu_fault = FALSE
    /\ tick = [i \in Instances |-> NoTick]

NextSync ==
    \/ AdvanceTime
    \/ \E i \in Instances :
          \/ LoopCheck(i)
          \/ LoopAcquire(i)
          \/ TickStart(i)
          \/ GpuAttemptFrom(i, SyncDatas, {"step"})
          \/ GpuBackoff(i)
          \/ CpuFallbackFrom(i, SyncDatas)
          \/ TickCpuFrom(i, SyncDatas)
          \/ TickEnd(i)
          \/ LoopInvalidate(i)
          \/ UpdateNodePositionsWith(i, UpdateBatchesOf({1, 2, 3}, SyncDatas, MaxUpdates))

SpecSync == InitSync /\ [][NextSync]_vars

\* every node of the sequence that has an entry in the map has that entry's data
Synchronized(i) ==
    \A n \in DOMAIN graph_data[i].nodes :
        LET node == graph_data[i].nodes[n] IN
        node.id \in DOMAIN node_map[i] =>
            /\ node_map[i][node.id].data.position = node.data.position
            /\ node_map[i][node.id].data.velocity = node.data.velocity
            /\ node_map[i][node.id].data.mass = node.data.mass
            /\ node_map[i][node.id].data.flags = node.data.flags

\* C29: starting from a node sequence and a node map that agree, after any
\* sequence of successful or failed GPU ticks, CPU ticks and
\* update_node_positions calls every node id present in both has the same
\* position, velocity, mass and flags in both
C29_SequenceAndMapSynchronized == \A i \in Instances : Synchronized(i)

\* a GPU attempt has failed and a later one has written the nodes, an update
\* has been accepted, node 2 is in both with data it did not start with, and
\* node 1 is in the sequence only
C29_Witness ==
    /\ tick[1].wrote
    /\ tick[1].gpu_calls >= 2
    /\ last_update[1] > 0
    /\ DOMAIN node_map[1] = {2, 3}
    /\ graph_data[1].nodes[2].data.mass # AgreeingNodes[2].data.mass
    /\ graph_data[1].nodes[2].data.velocity # AgreeingNodes[2].data.velocity
    /\ graph_data[1].nodes[1].data # AgreeingNodes[1].data

(***************************************************************************)
(* The loop of an instance built with an accelerator any of whose calls    *)
(* may fail.                                                               *)
(***************************************************************************)
InitStages ==
    /\ \E map \in AgreeingMaps : InitRunningWith(AgreeingNodes, map)
    /\ gpu_compute = [i \in Instances |-> i = 1]
    /\ physics_enabled = [i \in Instances |-> TRUE]
    /\ cpu_fault = FALSE
    /\ tick = [i \in Instances |-> NoTick]

NextStages ==
    \E i \in Instances :
        \/ LoopCheck(i)
        \/ LoopAcquire(i)
        \/ TickStart(i)
        \/ GpuAttemptFrom(i, SyncDatas, {Stages[k] : k \in DOMAIN Stages})
        \/ GpuBackoff(i)
        \/ CpuFallbackFrom(i, SyncDatas)
        \/ TickEnd(i)
        \/ LoopInvalidate(i)

SpecStages == InitStages /\ [][NextStages]_vars

\* the first call of calculate_layout that fails under that behaviour
FirstFailing(fails) ==
    CHOOSE k \in DOMAIN Stages :
        /\ Stages[k] \in fails
        /\ \A j \in DOMAIN Stages : Stages[j] \in fails => k <= j

\* C30: a GPU attempt in which a stage fails (pushing graph data, pushing
\* parameters, the step, or the read-back) returns that stage's error, has
\* run the stages up to that one and none after it, and leaves the graph's
\* node sequence and the node map as they were
C30_FailedStageAbortsAttempt ==
    [][\A i \in Instances :
          (tick'[i].gpu_calls = tick[i].gpu_calls + 1 /\ tick'[i].fails # {}) =>
              LET k == FirstFailing(tick'[i].fails) IN
              /\ tick'[i].attempt_result = StageError(Stages[k])
              /\ tick'[i].ran = SubSeq(Stages, 1, k)
              /\ tick'[i].result # Ok
              /\ ~tick'[i].wrote
              /\ graph_data'[i].nodes = graph_data[i].nodes
              /\ node_map'[i] = node_map[i]]_vars

\* the read-back of the third attempt has failed after the step succeeded,
\* and the nodes are as they started
C30_Witness ==
    /\ tick[1].gpu_calls = MAX_GPU_CALCULATION_RETRIES
    /\ tick[1].fails = {"get_node_data"}
    /\ tick[1].attempt_result = StageError("get_node_data")
    /\ tick[1].ran = Stages
    /\ tick[1].pc = "next"
    /\ graph_data[1].nodes = AgreeingNodes

(***************************************************************************)
(* Instances constructed while the live settings change.                   *)
(***************************************************************************)
InitSettings ==
    /\ InitLifecycleVars /\ InitNoBuild /\ InitNoService
    /\ read_pc = [r \in Readers |-> "idle"]
    /\ read_inst = [r \in Readers |-> NoId]
    /\ read_start = [r \in Readers |-> 0]
    /\ read_nodes = [r \in Readers |-> <<>>]
    /\ cache_stale = [i \in Instances |-> FALSE]
    /\ read_stale = [r \in Readers |-> FALSE]
    /\ read_sequential = [r \in Readers |-> FALSE]
    /\ last_read = [inst |-> NoId, nodes |-> <<>>, start |-> 0,
                    quiet |-> FALSE, stale |-> FALSE]
    /\ update_call = NoCall
    /\ diagnostics = NoDiagnostics
    /\ lock_state = NoLocks
    /\ settings \in [live : PhysicsSettings,
                     physics_settings : {[i \in Instances |-> NotCaptured]}]
    /\ broadcast_loop = [i \in Instances |-> NoBroadcastLoop]
    /\ page_call = NoPageCall
    /\ InitTickIdle

NextSettings ==
    \/ SettingsChange
    \/ \E i \in Instances :
          \/ NewCapture(i)
          \/ NewLock(i)
          \/ NewSetId(i)
          \/ NewCompareExchange(i)
          \/ NewStoreFalse(i)
          \/ NewStoreTrue(i)
          \/ NewSpawn(i)
          \/ LoopCheck(i)
          \/ LoopAcquire(i)
          \/ TickStart(i)
          \/ TickCpu(i)
          \/ TickEnd(i)
          \/ LoopInvalidate(i)

SpecSettings == InitSettings /\ [][NextSettings]_vars

\* C31: an instance's clone of the physics settings is the live value at its
\* construction and never changes afterwards, and every tick of the instance
\* takes its parameters and its physics-enabled setting from that clone,
\* whatever the live settings have become
C31_SettingsCapturedAtConstruction ==
    [][\A i \in Instances :
          /\ (settings.physics_settings[i] = NotCaptured
                /\ settings'.physics_settings[i] # NotCaptured)
                => settings'.physics_settings[i] = settings.live
          /\ settings.physics_settings[i] # NotCaptured
                => settings'.physics_settings[i] = settings.physics_settings[i]
          /\ (tick[i].pc = "idle" /\ tick'[i].pc # "idle")
                => /\ tick'[i].params = SimulationParams(settings.physics_settings[i])
                   /\ tick'[i].result = <<"skipped">>
                         <=> ~settings.physics_settings[i].enabled]_vars

\* a tick of instance 1 has run the physics with the parameters of its clone
\* while the live settings have physics disabled and another damping
C31_Witness ==
    /\ tick[1].pc = "finished"
    /\ tick[1].cpu_calls = 1
    /\ settings.physics_settings[1] # NotCaptured
    /\ tick[1].params = SimulationParams(settings.physics_settings[1])
    /\ ~settings.live.enabled
    /\ settings.live.damping # settings.physics_settings[1].damping

\* C32: calculate_layout_with_retry returns Ok at the first GPU attempt that
\* succeeds, with no further GPU attempt, delay or CPU computation; the CPU
\* fallback runs only after all MAX_GPU_CALCULATION_RETRIES attempts have
\* failed, and a delay is waited only after a failed attempt that is not the
\* last
C32_FirstSuccessEndsRetries ==
    [][\A i \in Instances :
          /\ (tick'[i].gpu_calls = tick[i].gpu_calls + 1 /\ tick'[i].attempt_result = Ok)
                => /\ tick'[i].pc = "finished"
                   /\ tick'[i].result = Ok
          /\ (tick[i].attempt_result = Ok /\ tick'[i].attempt_result = Ok)
                => /\ tick'[i].gpu_calls = tick[i].gpu_calls
                   /\ tick'[i].cpu_calls = 0
                   /\ tick'[i].delays = tick[i].delays
          /\ (gpu_compute[i] /\ tick'[i].cpu_calls = tick[i].cpu_calls + 1)
                => /\ tick[i].gpu_calls = MAX_GPU_CALCULATION_RETRIES
                   /\ tick[i].attempt_result # Ok
                   /\ tick[i].wrote = FALSE
          /\ Len(tick'[i].delays) > Len(tick[i].delays)
                => /\ tick[i].attempt_result \notin {Ok, <<"None">>}
                   /\ tick[i].gpu_calls < MAX_GPU_CALCULATION_RETRIES
                   /\ Len(tick[i].delays) = tick[i].gpu_calls - 1]_vars

\* the second attempt has succeeded after one delay, and the tick is over
C32_Witness ==
    /\ gpu_compute[1]
    /\ tick[1].pc = "idle"
    /\ tick[1].gpu_calls = 2
    /\ tick[1].attempt_result = Ok
    /\ tick[1].result = Ok
    /\ tick[1].cpu_calls = 0
    /\ Len(tick[1].delays) = 1

\* C33: whenever the loop of the globally active instance is running, the
\* global running flag is true
C33_ActiveLoopKeepsFlag ==
    \A i \in Instances :
        (SIMULATION_MUTEX.value = i /\ LoopActive(i)) => SIMULATION_LOOP_RUNNING

(***************************************************************************)
(* The lifecycle from the state a successful shutdown() leaves: instance 1 *)
(* is the active one, its loop has exited and its call has returned.       *)
(***************************************************************************)
Stopped(i) ==
    /\ SIMULATION_LOOP_RUNNING = FALSE
    /\ SIMULATION_MUTEX = [value |-> i, holder |-> Free]
    /\ new_pc = [j \in Instances |-> IF j = i THEN "returned" ELSE "unborn"]
    /\ loop_pc = [j \in Instances |-> IF j = i THEN "exited" ELSE "none"]
    /\ shutdown_pc = [j \in Instances |-> "idle"]
    /\ attempt = [j \in Instances |-> 0]
    /\ shutdown_requested = [j \in Instances |-> j = i]
    /\ shutdown_complete = [j \in Instances |-> j = i]
    /\ shutdown_outcome = [j \in Instances |-> IF j = i THEN "stopped" ELSE "none"]
    /\ loop_was_running = [j \in Instances |-> j = i]

InitStopped ==
    Stopped(1) /\ InitNoBuild /\ InitNoService /\ InitReaders /\ InitTickIdle

\* the running flag is false, so that a new() takes the branch of the
\* compare_exchange that succeeds
NextStopped ==
    \E i \in Instances :
        \/ NewLock(i)
        \/ NewSetId(i)
        \/ NewCompareExchange(i)
        \/ NewSpawn(i)
        \/ LoopCheck(i)
        \/ LoopAcquire(i)
        \/ LoopTick(i)
        \/ LoopInvalidate(i)
        \/ ShutdownLock(i)
        \/ ShutdownCompare(i)
        \/ ShutdownResetComplete(i)
        \/ ShutdownPoll(i)

SpecStopped == InitStopped /\ [][NextStopped]_vars

\* C34: a shutdown() call on the active instance made after an earlier call
\* has succeeded and the loop has exited returns with success before the
\* polling limit, and leaves the global running flag as it was
C34_SecondShutdownReturnsPromptly ==
    [][(shutdown_pc[1] = "poll" /\ shutdown_pc'[1] = "idle")
          => /\ shutdown_outcome'[1] = "stopped"
             /\ attempt[1] < max_attempts - 1
             /\ SIMULATION_LOOP_RUNNING' = SIMULATION_LOOP_RUNNING]_vars

(***************************************************************************)
(* Builds that may also end by a panic.                                    *)
(***************************************************************************)
NextRebuild ==
    \E b \in Builders :
        \/ BuildBegin(b)
        \/ BuildFinish(b)
        \/ BuildPanic(b)

SpecRebuild == InitBuild /\ [][NextRebuild]_vars

\* C35: the rebuild flag is cleared whenever the build call that set it
\* returns, with a graph or by unwinding, so a call made when no other call
\* is building is never rejected; a call that is rejected leaves the flag set
C35_RebuildFlagCleared ==
    [][\A b \in Builders :
          /\ (build_pc[b] = "building" /\ build_pc'[b] = "returned")
                => ~GRAPH_REBUILD_IN_PROGRESS'
          /\ (build_pc[b] = "idle" /\ build_pc'[b] # "idle" /\ Building = {})
                => /\ build_pc'[b] = "building"
                   /\ build_result'[b] # "already in progress"
          /\ (build_pc[b] = "idle" /\ build_result'[b] = "already in progress")
                => /\ Building # {}
                   /\ GRAPH_REBUILD_IN_PROGRESS
                   /\ GRAPH_REBUILD_IN_PROGRESS']_vars

\* a build has panicked and the next call has built the graph
C35_Witness ==
    \E b, c \in Builders :
        /\ build_result[b] = "panicked"
        /\ build_result[c] = "ok"
        /\ ~GRAPH_REBUILD_IN_PROGRESS

(***************************************************************************)
(* Ticks over an empty and over a one-node graph.                          *)
(***************************************************************************)
InitCpu ==
    /\ \/ InitRunningWith(<<>>, <<>>)
       \/ InitRunningWith(<<NodeRecord(1, 0)>>, 1 :> NodeRecord(1, 0))
    /\ gpu_compute \in {f \in [Instances -> BOOLEAN] : \A i \in Instances : i # 1 => ~f[i]}
    /\ physics_enabled = [i \in Instances |-> TRUE]
    /\ cpu_fault = FALSE
    /\ tick = [i \in Instances |-> NoTick]

SpecCpu == InitCpu /\ [][NextTick]_vars

\* C36: calculate_layout_cpu returns Ok for every graph and leaves an empty
\* graph as it is, so no tick of the loop ends with an error
C36_CpuLayoutNeverFails ==
    [][\A i \in Instances :
          /\ (tick[i].pc \in {"fallback", "cpu"} /\ tick'[i].pc = "finished")
                => /\ tick'[i].result = Ok
                   /\ tick'[i].cpu_calls = tick[i].cpu_calls + 1
                   /\ graph_data[i].nodes = <<>>
                         => /\ graph_data'[i] = graph_data[i]
                            /\ node_map'[i] = node_map[i]
          /\ (tick[i].pc # "finished" /\ tick'[i].pc = "finished")
                => tick'[i].result \in {Ok, <<"skipped">>}]_vars

\* every GPU attempt of a tick over the empty graph has failed and the CPU
\* fallback has returned Ok
C36_Witness ==
    \E i \in Instances :
        /\ tick[i].pc = "finished"
        /\ tick[i].gpu_calls = MAX_GPU_CALCULATION_RETRIES
        /\ tick[i].cpu_calls = 1
        /\ tick[i].result = Ok
        /\ graph_data[i].nodes = <<>>

(***************************************************************************)
(* update_node_positions, one update at a time, on batches that name ids   *)
(* inside and outside the node map and carry data and metadata of their    *)
(* own.                                                                    *)
(***************************************************************************)
NextUpdate ==
    \/ AdvanceTime
    \/ \E i \in Instances :
          \/ UpdateBeginWith(i, UpdateBatchesOf({1, 2, 3}, SyncDatas, MaxBatch))
          \/ UpdateOne(i)
          \/ UpdateFinish(i)

InitUpdate ==
    /\ \E map \in AgreeingMaps : InitRunningWith(AgreeingNodes, map)
    /\ InitTickIdle

SpecUpdate == InitUpdate /\ [][NextUpdate]_vars

\* the update the rate limiter answers for in this step
UpdateTaken == update_call.updates[Len(update_call.accepted) + 1]

\* the accepted updates of the call all name ids that are not in the map
OnlyAbsentAccepted ==
    \A k \in DOMAIN update_call.updates :
        update_call.accepted[k] =>
            update_call.updates[k][1] \notin DOMAIN node_map[update_call.inst]

\* C37: an accepted update for an id of the node map replaces that node's
\* position and velocity and keeps its mass, flags and metadata; one for an
\* id that is not in the map changes no node of the map or of the graph and
\* adds none
C37_UpdateReplacesPositionKeepsRest ==
    [][/\ (UpdateAnswered /\ UpdateAccepted) =>
            LET i == update_call.inst
                node_id == UpdateTaken[1]
                update_node == UpdateTaken[2]
            IN  IF node_id \in DOMAIN node_map[i]
                  THEN /\ DOMAIN node_map'[i] = DOMAIN node_map[i]
                       /\ node_map'[i][node_id].data.position = update_node.data.position
                       /\ node_map'[i][node_id].data.velocity = update_node.data.velocity
                       /\ node_map'[i][node_id].data.mass = node_map[i][node_id].data.mass
                       /\ node_map'[i][node_id].data.flags = node_map[i][node_id].data.flags
                       /\ node_map'[i][node_id].metadata = node_map[i][node_id].metadata
                  ELSE /\ node_map'[i] = node_map[i]
                       /\ graph_data'[i] = graph_data[i]
       /\ (update_call.pc = "running" /\ update_call'.pc = "returned"
             /\ OnlyAbsentAccepted) =>
            /\ graph_data'[update_call.inst].nodes = update_call.before[1]
            /\ node_map'[update_call.inst] = update_call.before[2]]_vars

\* a call has returned whose first update, for node 2 of the map, was
\* accepted with a position, a velocity, a mass, flags and metadata other
\* than the node's
C37_Witness ==
    /\ update_call.pc = "returned"
    /\ update_call.accepted[1]
    /\ update_call.updates[1][1] = 2
    /\ update_call.updates[1][2].data = [position |-> 0, velocity |-> 0, mass |-> 10, flags |-> 1]
    /\ 2 \in DOMAIN update_call.before[2]
    /\ update_call.updates[1][2].metadata # update_call.before[2][2].metadata
    /\ update_call.before[2][2].data = AgreeingNodes[2].data
    /\ node_map[update_call.inst][2].data = [position |-> 0, velocity |-> 0, mass |-> 20, flags |-> 0]
    /\ graph_data[update_call.inst].nodes[2].data = node_map[update_call.inst][2].data

(***************************************************************************)
(* start_broadcast_loop: the task that pushes the node positions to the    *)
(* clients every 100 ms.                                                   *)
(***************************************************************************)
BroadcastFrame ==
    UNCHANGED <<lifecycle_vars, build_vars, update_call, tick_vars, diagnostics, lock_state,
                settings, page_call>>

\* tokio::spawn(async move { ... }) with service_clone = self.clone(): the
\* clone shares the instance's Arcs
StartBroadcastLoop(i) ==
    /\ new_pc[i] = "returned"
    /\ broadcast_loop[i].pc = "none"
    /\ broadcast_loop' = [broadcast_loop EXCEPT ![i].pc = "check"]
    /\ BroadcastFrame
    /\ UNCHANGED graph_vars

\* a loop that never looks at the flag
BroadcastExitsNever(i) == FALSE

\* if service_clone.shutdown_requested.load(Ordering::SeqCst) { break; }
BroadcastExits(i) == shutdown_requested[i]

BroadcastCheck(i) ==
    /\ broadcast_loop[i].pc = "check"
    /\ broadcast_loop' = [broadcast_loop EXCEPT
                            ![i].pc = IF BroadcastExits(i) THEN "exited" ELSE "snapshot"]
    /\ BroadcastFrame
    /\ UNCHANGED graph_vars

\* let nodes = service_clone.get_node_positions().await, as one step: the
\* fresh cache entry, or the graph's nodes (under the read lock), which are
\* stored in the cache; then if !nodes.is_empty()
BroadcastSnapshot(i) ==
    /\ broadcast_loop[i].pc = "snapshot"
    /\ IF /\ node_positions_cache[i].some
          /\ CacheFresh(DurationSince(now, node_positions_cache[i].timestamp))
         THEN /\ broadcast_loop' =
                    [broadcast_loop EXCEPT
                       ![i].nodes = node_positions_cache[i].nodes,
                       ![i].pc = IF node_positions_cache[i].nodes # <<>>
                                   THEN "broadcast" ELSE "sleep"]
              /\ last_read' = Returned(i, node_positions_cache[i].nodes, now,
                                       cache_stale[i])
              /\ UNCHANGED <<node_positions_cache, cache_stale>>
         ELSE /\ loop_pc[i] # "tick"
              /\ broadcast_loop' =
                    [broadcast_loop EXCEPT
                       ![i].nodes = graph_data[i].nodes,
                       ![i].pc = IF graph_data[i].nodes # <<>>
                                   THEN "broadcast" ELSE "sleep"]
              /\ node_positions_cache' =
                    [node_positions_cache EXCEPT ![i] = Some(graph_data[i].nodes, now)]
              /\ cache_stale' = [cache_stale EXCEPT ![i] = FALSE]
              /\ last_read' = Returned(i, graph_data[i].nodes, now, FALSE)
    /\ read_sequential' = [q \in Readers |-> FALSE]
    /\ BroadcastFrame
    /\ UNCHANGED <<now, graph_data, node_map, last_update, read_vars, read_stale>>

\* GraphService::broadcast_positions(captured_client_manager_addr.clone(), &nodes)
BroadcastSend(i) ==
    /\ broadcast_loop[i].pc = "broadcast"
    /\ broadcast_loop' =
          [broadcast_loop EXCEPT
             ![i].pc = "sleep",
             ![i].sent_after_request =
                 IF shutdown_requested[i] /\ @ < MaxTicksAfterRequest THEN @ + 1 ELSE @]
    /\ BroadcastFrame
    /\ UNCHANGED graph_vars

\* tokio::time::sleep(Duration::from_millis(100)).await
BroadcastSleep(i) ==
    /\ broadcast_loop[i].pc = "sleep"
    /\ broadcast_loop' = [broadcast_loop EXCEPT ![i].pc = "check", ![i].nodes = <<>>]
    /\ BroadcastFrame
    /\ UNCHANGED graph_vars

BroadcastStep(i) ==
    \/ BroadcastCheck(i)
    \/ BroadcastSnapshot(i)
    \/ BroadcastSend(i)
    \/ BroadcastSleep(i)

\* instance 1 runs over the empty graph or over one node
InitBroadcast ==
    /\ \/ InitRunningWith(<<>>, <<>>)
       \/ InitRunningWith(<<NodeRecord(1, 0)>>, 1 :> NodeRecord(1, 0))
    /\ InitTickIdle

NextBroadcast ==
    \E i \in Instances :
        \/ LoopCheck(i)
        \/ LoopAcquire(i)
        \/ LoopTick(i)
        \/ LoopInvalidate(i)
        \/ ShutdownLock(i)
        \/ ShutdownCompare(i)
        \/ ShutdownResetComplete(i)
        \/ ShutdownPoll(i)
        \/ StartBroadcastLoop(i)
        \/ BroadcastCheck(i)
        \/ BroadcastSnapshot(i)
        \/ BroadcastSend(i)
        \/ BroadcastSleep(i)

SpecBroadcast == InitBroadcast /\ [][NextBroadcast]_vars

\* the runtime runs every spawned task that can run
SpecBroadcastFair ==
    /\ SpecBroadcast
    /\ \A i \in Instances :
          /\ WF_vars(BroadcastStep(i))
          /\ WF_vars(LoopCheck(i) \/ LoopAcquire(i) \/ LoopTick(i) \/ LoopInvalidate(i))

\* C38: the broadcast loop of an instance looks at that instance's
\* shutdown_requested once per iteration, at its start, and exits when it is
\* set: once the flag is set the loop sends at most one more broadcast and
\* then ends; an iteration whose snapshot is empty sends nothing
C38_BroadcastLoopStopsOnRequest ==
    /\ [][\A i \in Instances :
            /\ (broadcast_loop[i].pc = "check" /\ broadcast_loop'[i].pc # "check")
                  => broadcast_loop'[i].pc =
                        IF shutdown_requested[i] THEN "exited" ELSE "snapshot"
            /\ (broadcast_loop[i].pc # "exited" /\ broadcast_loop'[i].pc = "exited")
                  => broadcast_loop[i].pc = "check" /\ shutdown_requested[i]
            /\ broadcast_loop[i].pc = "exited" => broadcast_loop'[i].pc = "exited"
            /\ broadcast_loop'[i].sent_after_request <= 1
            /\ broadcast_loop'[i].pc = "broadcast" => broadcast_loop'[i].nodes # <<>>
            /\ (broadcast_loop[i].pc = "snapshot" /\ broadcast_loop'[i].nodes = <<>>)
                  => broadcast_loop'[i].pc \in {"snapshot", "sleep"}]_vars
    /\ \A i \in Instances :
          (shutdown_requested[i] /\ broadcast_loop[i].pc # "none")
             ~> (broadcast_loop[i].pc = "exited")

\* a loop that was past its check when shutdown was requested has sent one
\* more broadcast and has exited
C38_Witness ==
    \E i \in Instances :
        /\ broadcast_loop[i].pc = "exited"
        /\ broadcast_loop[i].sent_after_request = 1

(***************************************************************************)
(* get_paginated_graph_data.                                               *)
(***************************************************************************)
\* usize arithmetic wraps at 2^64; the model wraps at a modulus of its own,
\* far above every page, page size and length it uses
UsizeModulus == 65536

Min(a, b) == IF a <= b THEN a ELSE b

\* graph.nodes.iter().skip(start).take(count).cloned().collect()
SkipTake(nodes, start, count) ==
    [k \in 1..Min(count, IF start >= Len(nodes) THEN 0 ELSE Len(nodes) - start) |->
        nodes[start + k]]

\* socket_flow_messages::Node { id: model_node.id.to_string(), ... }
PageNode(model_node) ==
    [id |-> ToString(model_node.id), data |-> model_node.data,
     metadata |-> model_node.metadata]

\* the function on the read-locked graph: Ok(PaginatedGraphData { ... }), or
\* the panic of `end - start` in a build with overflow checks (the default
\* of the dev profile; without them the difference wraps)
GetPaginatedGraphDataOf(graph, page, page_size, overflow_checks) ==
    LET total_nodes == Len(graph.nodes)
        start == (page * page_size) % UsizeModulus
        end == Min(((page + 1) * page_size) % UsizeModulus, total_nodes)
        model_page_nodes == SkipTake(graph.nodes, start, (end - start) % UsizeModulus)
        node_ids == {model_page_nodes[k].id : k \in DOMAIN model_page_nodes}
    IN  IF end < start /\ overflow_checks
          THEN [pc |-> "panicked", page |-> page, page_size |-> page_size]
          ELSE [pc |-> "returned", page |-> page, page_size |-> page_size,
                nodes |-> [k \in DOMAIN model_page_nodes |-> PageNode(model_page_nodes[k])],
                edges |-> {e \in graph.edges :
                             e.source \in node_ids \/ e.target \in node_ids},
                total_nodes |-> total_nodes,
                total_edges |-> Cardinality(graph.edges)]

\* a call with a page and a page size, in either build
GetPaginatedGraphData(i) ==
    /\ new_pc[i] = "returned"
    /\ loop_pc[i] # "tick"
    /\ \E page \in 0..MaxPage, page_size \in 0..MaxPage, overflow_checks \in BOOLEAN :
          page_call' = GetPaginatedGraphDataOf(graph_data[i], page, page_size,
                                               overflow_checks)
    /\ UNCHANGED <<lifecycle_vars, build_vars, graph_vars, update_call, tick_vars,
                   diagnostics, lock_state, settings, broadcast_loop>>

\* graphs of no to three nodes with edges among nodes 1 to 3
PageNodes == <<NodeRecord(1, 0), NodeRecord(2, 1), NodeRecord(3, 0)>>

PageEdges == {[source |-> 1, target |-> 2], [source |-> 2, target |-> 3],
              [source |-> 3, target |-> 3]}

InitPage ==
    /\ \E len \in 0..Len(PageNodes), edges \in SUBSET PageEdges :
          InitRunningOn([nodes |-> SubSeq(PageNodes, 1, len), edges |-> edges],
                        [id \in 1..len |-> PageNodes[id]])
    /\ InitTickIdle

NextPage == \E i \in Instances : GetPaginatedGraphData(i)

SpecPage == InitPage /\ [][NextPage]_vars

\* C39: get_paginated_graph_data returns without error or panic for every
\* page and page size; its nodes are those at the indices from
\* page * page_size up to min((page + 1) * page_size, total) of the node
\* sequence, in order (none when page * page_size is at or beyond the
\* total), its edges the graph's edges with an endpoint among those nodes,
\* and total_nodes and total_edges the totals of the whole graph
C39_PageIsTheSlice ==
    page_call.pc # "none" =>
        LET graph == graph_data[1]
            first == page_call.page * page_call.page_size
            last == Min((page_call.page + 1) * page_call.page_size, Len(graph.nodes))
            indices == {n \in DOMAIN graph.nodes : first < n /\ n <= last}
        IN  /\ page_call.pc = "returned"
            /\ Len(page_call.nodes) = Cardinality(indices)
            /\ \A k \in DOMAIN page_call.nodes :
                  /\ page_call.nodes[k].id = ToString(graph.nodes[first + k].id)
                  /\ page_call.nodes[k].data = graph.nodes[first + k].data
            /\ page_call.edges =
                  {e \in graph.edges :
                     \E n \in indices : graph.nodes[n].id \in {e.source, e.target}}
            /\ page_call.total_nodes = Len(graph.nodes)
            /\ page_call.total_edges = Cardinality(graph.edges)

====
